---- MODULE Spec2Model ----
(***************************************************************************)
(* Model of the capture / motion / recording core of the surveillance bot  *)
(* (surveillance_bot/camera.py) and of the bot commands that drive it      *)
(* (surveillance_bot/bot.py).                                              *)
(*                                                                         *)
(* Threads of the program and their model counterparts:                    *)
(*   - the capture thread  CameraDevice._update        (Upd... actions)    *)
(*   - the caller of Camera.start()/stop()             (CamStart, CamStop) *)
(*   - the bot's asynchronous /surveillance_start handlers, one generator  *)
(*     chain surveillance_start -> _motion_detection each (Handlers)       *)
(*   - the dispatcher thread running the synchronous commands              *)
(*     /surveillance_stop, /get_video, /get_photo                          *)
(*                                                                         *)
(* Time is counted in clock units; durations (video_seconds,               *)
(* picture_seconds) are given in the same unit, and fps is the exact       *)
(* rational frame_count / (now - start_time), kept as numerator and        *)
(* denominator.                                                            *)
(***************************************************************************)
EXTENDS Integers, Sequences, FiniteSets, TLC

VARIABLES
    writers,            \* the codecs whose cv2.VideoWriter opens
    ctor,               \* outcome of Camera.__init__
    probes,             \* codecs probed by get_supported_codec, in order
    codec,              \* Camera._codec
    exit_status,        \* status the process exited with in Bot.__init__
    frame,              \* CameraDevice._frame (the cached frame)
    frame_count,        \* CameraDevice._frame_count
    start_time,         \* CameraDevice._start_time
    running,            \* CameraDevice._running
    lock,               \* CameraDevice._lock: "free" or its holder
    upc,                \* position of the capture thread in _update
    uframe,             \* local `frame` of _update
    mpc,                \* position of the thread calling start()/stop()
    thread,             \* CameraDevice._thread: "none", or what has been
                        \* done with the Thread: "started", "joined",
                        \* "rejoined" (join() called on it again)
    last_call,          \* the last call made on the frame source
    now,                \* the wall clock, time()
    captured,           \* frames grabbed from the device since start()
    stored,             \* increments of _frame_count since start()
    starts,             \* calls of start() that launched a capture thread
    reads,              \* results of get_photo's read() calls since start()
    surveillance_mode,  \* Camera._surveillance_mode
    last_switch,        \* which of a loop start and surveillance_stop()
                        \* happened last ("none": neither yet)
    stream,             \* per handler: locals of surveillance_start and
                        \* _motion_detection, and what the handler did
    dpc,                \* dispatcher thread: "ready" or inside get_video
    gv,                 \* locals of get_video
    bot_data,           \* context.bot_data: the configuration values
    chat,               \* the last command the wrapper of the command
                        \* handlers received: who sent it, the reply, and
                        \* the level of what was logged
    conv,               \* state of the configuration conversation
    user_data,          \* context.user_data of the conversation
    update,             \* the last update the conversation handled
    sent,               \* what the conversation sent last to the chat
    asked,              \* the menu step that asked for the value awaited
    heap,               \* the image buffers allocated, by reference
    cached,             \* the reference CameraDevice._frame holds
    held,               \* the reference each consumer got from read()
    returned,           \* what read() has returned: to whom, and the image
    error,              \* the exception the last get_photo raised
    old                 \* a capture thread that was still alive when a
                        \* later start() launched the next one

camVars  == <<writers, ctor, probes, codec, exit_status>>
devVars  == <<frame, frame_count, start_time, running, lock, upc, uframe,
              mpc, thread, last_call, captured, stored, starts>>
survVars == <<surveillance_mode, last_switch, stream>>
gvVars   == <<dpc, gv>>
confVars == <<conv, user_data, update, sent, asked>>
heapVars == <<heap, cached, held, returned>>
liveVars == <<error, old>>
botVars  == <<bot_data, chat, confVars, heapVars, liveVars>>
vars     == <<writers, ctor, probes, codec, exit_status, frame, frame_count,
              start_time, running, lock, upc, uframe, mpc, thread, last_call,
              now, captured, stored, starts, reads, surveillance_mode,
              last_switch, stream, dpc, gv, bot_data, chat, conv, user_data,
              update, sent, asked, heap, cached, held, returned, error,
              old>>

----------------------------------------------------------------------------
(* Bounds of the model *)

MaxFrames == 4          \* frames the device delivers per start()
MaxTime == 3            \* last clock value
MaxStarts == 2          \* start() calls that launch a capture thread
MaxReads == 3           \* get_photo calls recorded per start()

----------------------------------------------------------------------------
(* Frames.  A device frame shows one of a few scenes: the empty            *)
(* background (scene 0) or the background with one bright block, each      *)
(* scene's block at its own place.  A frame of the model is the scene it   *)
(* shows and n, its ordinal among the frames grabbed since start()         *)
(* (0: the frame read by the constructor).                                 *)

Scenes == {0, 1, 2}

BlockArea(s) == CASE s = 0 -> 0
                  [] s = 1 -> 1999
                  [] s = 2 -> 2000

Frame(n, s) == [n |-> n, scene |-> s]

NoFrame == [n |-> -1, scene |-> -1]

----------------------------------------------------------------------------
(* Camera.__init__ and get_supported_codec *)

Candidates == <<"avc1", "mp4v">>

Codecs == {Candidates[i] : i \in 1..Len(Candidates)}

\* A probing loop that tries the fallback codec before the preferred one.
ProbeFallbackFirst(i, opens) ==
    IF opens["mp4v"]
    THEN [codec |-> "mp4v", probed |-> <<"mp4v">>]
    ELSE IF opens["avc1"]
         THEN [codec |-> "avc1", probed |-> <<"mp4v", "avc1">>]
         ELSE [codec |-> "none", probed |-> <<"mp4v", "avc1">>]

\* The probing loop of get_supported_codec from candidate i on: `opens`
\* tells which test writer reports isOpened().  Returns the codec chosen
\* ("none" for None) and the candidates probed, in order.
RECURSIVE ProbeFrom(_, _)
ProbeFrom(i, opens) ==
    IF i > Len(Candidates)
    THEN [codec |-> "none", probed |-> <<>>]
    ELSE IF opens[Candidates[i]]
         THEN [codec |-> Candidates[i], probed |-> <<Candidates[i]>>]
         ELSE LET rest == ProbeFrom(i + 1, opens)
              IN  [codec |-> rest.codec,
                   probed |-> <<Candidates[i]>> \o rest.probed]

get_supported_codec(opens) == ProbeFrom(1, opens)

\* A constructor that probes the codecs and reads the first frame before
\* it looks at whether the device is opened.
ConstructProbeFirst ==
    /\ ctor = "new"
    /\ \E opened \in BOOLEAN, s \in Scenes :
        LET r == get_supported_codec(writers)
        IN  /\ frame' = Frame(0, s)
            /\ probes' = r.probed
            /\ codec' = r.codec
            /\ ctor' = IF ~opened THEN "CameraConnectionError"
                       ELSE IF r.codec = "none" THEN "CodecNotAvailable"
                       ELSE "ok"
    /\ UNCHANGED <<botVars, writers, exit_status>>
    /\ UNCHANGED <<frame_count, start_time, running, lock, upc, uframe, mpc,
                   thread, last_call, now, captured, stored, starts, reads,
                   survVars, gvVars>>

\* Camera(cam_id): CameraDevice.__init__ raises CameraConnectionError when
\* the device is not opened, else reads the first frame; then the codec is
\* probed and CodecNotAvailable raised when there is none.
Construct ==
    /\ ctor = "new"
    /\ \E opened \in BOOLEAN, s \in Scenes :
        IF ~opened
        THEN /\ ctor' = "CameraConnectionError"
             /\ UNCHANGED <<probes, codec, frame>>
        ELSE LET r == get_supported_codec(writers)
             IN  /\ frame' = Frame(0, s)
                 /\ probes' = r.probed
                 /\ codec' = r.codec
                 /\ ctor' = IF r.codec = "none" THEN "CodecNotAvailable"
                                                ELSE "ok"
    /\ UNCHANGED <<botVars, writers, exit_status>>
    /\ UNCHANGED <<frame_count, start_time, running, lock, upc, uframe, mpc,
                   thread, last_call, now, captured, stored, starts, reads,
                   survVars, gvVars>>

None == -1

\* Bot.__init__ before Camera(): without a token or without a username the
\* error is logged and the process exits with status 1; no camera is
\* constructed.
BotInitNoConfig ==
    /\ ctor = "new"
    /\ exit_status = None
    /\ \E token, username \in BOOLEAN :
          /\ ~token \/ ~username
          /\ exit_status' = 1
    /\ ctor' = "not constructed"
    /\ UNCHANGED <<botVars, writers, probes, codec, devVars, now, reads, survVars,
                   gvVars>>

\* Exit statuses that tell the two camera failures apart.
ExitStatusDistinct(err) ==
    CASE err = "CameraConnectionError" -> 2
      [] err = "CodecNotAvailable" -> 3

\* The status Bot.__init__ passes to sys.exit for an exception raised by
\* Camera().
ExitStatus(err) ==
    CASE err = "CameraConnectionError" -> 2
      [] err = "CodecNotAvailable" -> 2

\* Bot.__init__, the except clauses around Camera(): the error is logged
\* and the process exits.
BotInitExit ==
    /\ ctor \in {"CameraConnectionError", "CodecNotAvailable"}
    /\ exit_status = None
    /\ exit_status' = ExitStatus(ctor)
    /\ UNCHANGED <<botVars, writers, ctor, probes, codec, devVars, now, reads,
                   survVars, gvVars>>

----------------------------------------------------------------------------
(* CameraDevice *)

\* time() - self._start_time
Elapsed == now - start_time

\* CameraDevice.fps, as the fraction num / den
fps == [num |-> frame_count, den |-> Elapsed]

\* A start() that resets the counter and the start time even when the
\* capture loop is running.
CamStartAlways ==
    /\ ctor = "ok"
    /\ mpc = "ready"
    /\ IF running
       THEN /\ frame_count' = 0
            /\ start_time' = now
            /\ last_call' = "start while running"
            /\ UNCHANGED <<running, upc, now, thread, captured, stored,
                           starts, reads>>
       ELSE /\ starts < MaxStarts
            /\ now < MaxTime
            /\ frame_count' = 0
            /\ start_time' = now
            /\ now' = now + 1
            /\ running' = TRUE
            /\ upc' = "grab"
            /\ thread' = "started"
            /\ last_call' = "start"
            /\ captured' = 0
            /\ stored' = 0
            /\ starts' = starts + 1
            /\ reads' = <<>>
    /\ UNCHANGED <<botVars, camVars, frame, lock, uframe, mpc, survVars, gvVars>>

\* CameraDevice.start(): a no-op while running; else resets the counter and
\* the start time and launches the capture thread.  Two readings of the
\* clock never return the same instant, so the clock has moved on when
\* start() returns.
CamStart ==
    /\ ctor = "ok"
    /\ mpc = "ready"
    /\ IF running
       THEN /\ last_call' = "start while running"
            /\ UNCHANGED <<frame_count, start_time, running, upc, now,
                           thread, captured, stored, starts, reads>>
       ELSE /\ starts < MaxStarts
            /\ now < MaxTime
            /\ frame_count' = 0
            /\ start_time' = now
            /\ now' = now + 1
            /\ running' = TRUE
            /\ upc' = "grab"
            /\ thread' = "started"
            /\ last_call' = "start"
            /\ captured' = 0
            /\ stored' = 0
            /\ starts' = starts + 1
            /\ reads' = <<>>
    /\ UNCHANGED <<botVars, camVars, frame, lock, uframe, mpc, survVars, gvVars>>

\* CameraDevice.stop(), first half: self._running = False
CamStopSignal ==
    /\ ctor = "ok"
    /\ mpc = "ready"
    /\ running' = FALSE
    /\ mpc' = "join"
    /\ last_call' = "stop"
    /\ UNCHANGED <<botVars, camVars, frame, frame_count, start_time, lock, upc,
                   uframe, thread, now, captured, stored, starts, reads,
                   survVars, gvVars>>

\* A stop() that returns without waiting for the capture thread.
CamStopNoWait ==
    /\ mpc = "join"
    /\ thread' = IF thread = "none" THEN "none"
                 ELSE IF thread = "started" THEN "joined" ELSE "rejoined"
    /\ mpc' = "ready"
    /\ UNCHANGED <<botVars, camVars, frame, frame_count, start_time, running, lock,
                   upc, uframe, last_call, now, captured, stored, starts,
                   reads, survVars, gvVars>>

\* CameraDevice.stop(), second half: `if self._thread: self._thread.join()`.
\* Without a thread stop() returns at once; else join() returns once the
\* capture thread has finished, at once if it has been joined before
\* (self._thread keeps the Thread object after the join).
CamStopJoin ==
    /\ mpc = "join"
    /\ IF thread = "none"
       THEN UNCHANGED thread
       ELSE /\ upc = "done"
            /\ thread' = IF thread = "started" THEN "joined" ELSE "rejoined"
    /\ mpc' = "ready"
    /\ UNCHANGED <<botVars, camVars, frame, frame_count, start_time, running, lock,
                   upc, uframe, last_call, now, captured, stored, starts,
                   reads, survVars, gvVars>>

\* A capture loop that takes the lock before the device read returns.
UpdGrabLocked ==
    /\ upc = "grab"
    /\ IF running
       THEN /\ captured < MaxFrames
            /\ \E s \in Scenes : uframe' = Frame(captured + 1, s)
            /\ captured' = captured + 1
            /\ upc' = "lock"
            /\ lock' = "update"
       ELSE /\ upc' = "done"
            /\ UNCHANGED <<uframe, captured, lock>>
    /\ UNCHANGED <<botVars, camVars, frame, frame_count, start_time, running,
                   mpc, thread, last_call, now, stored, starts, reads, survVars, gvVars>>

\* _update: `while self._running: frame = self._device.read()[1]`.  The
\* loop condition and the blocking device read; the lock is not held.
UpdGrab ==
    /\ upc = "grab"
    /\ IF running
       THEN /\ captured < MaxFrames
            /\ \E s \in Scenes : uframe' = Frame(captured + 1, s)
            /\ captured' = captured + 1
            /\ upc' = "lock"
       ELSE /\ upc' = "done"
            /\ UNCHANGED <<uframe, captured>>
    /\ UNCHANGED <<botVars, camVars, frame, frame_count, start_time, running, lock,
                   mpc, thread, last_call, now, stored, starts, reads, survVars, gvVars>>

\* _update: `with self._lock:` (acquire)
UpdAcquire ==
    /\ upc = "lock"
    /\ lock = "free"
    /\ lock' = "update"
    /\ upc' = "set_frame"
    /\ UNCHANGED <<botVars, camVars, frame, frame_count, start_time, running, uframe,
                   mpc, thread, last_call, now, captured, stored, starts, reads, survVars,
                   gvVars>>

\* _update: `self._frame = frame`
UpdSetFrame ==
    /\ upc = "set_frame"
    /\ frame' = uframe
    /\ upc' = "set_count"
    /\ UNCHANGED <<botVars, camVars, frame_count, start_time, running, lock, uframe,
                   mpc, thread, last_call, now, captured, stored, starts, reads, survVars,
                   gvVars>>

\* A capture loop that counts every frame twice.
UpdSetCountTwice ==
    /\ upc = "set_count"
    /\ frame_count' = frame_count + 2
    /\ stored' = stored + 1
    /\ lock' = "free"
    /\ upc' = "grab"
    /\ UNCHANGED <<botVars, camVars, frame, start_time, running, uframe, mpc, thread, last_call, now,
                   captured, starts, reads, survVars, gvVars>>

\* _update: `self._frame_count += 1`, and the end of the with block
UpdSetCount ==
    /\ upc = "set_count"
    /\ frame_count' = frame_count + 1
    /\ stored' = stored + 1
    /\ lock' = "free"
    /\ upc' = "grab"
    /\ UNCHANGED <<botVars, camVars, frame, start_time, running, uframe, mpc, thread, last_call, now,
                   captured, starts, reads, survVars, gvVars>>

\* One iteration of the loop of _update as a reader sees it: read() and
\* the two stores exclude each other through the lock, so that a reader
\* finds the cached frame and the counter either both before or both after
\* an iteration.  (SpecCam keeps the steps of the iteration apart.)  The
\* device delivers frames showing the given scenes, maxf of them at most.
UpdStore(scenes, maxf) ==
    /\ upc = "grab"
    /\ running
    /\ lock = "free"
    /\ captured < maxf
    /\ \E s \in scenes : frame' = Frame(captured + 1, s)
    /\ frame_count' = frame_count + 1
    /\ captured' = captured + 1
    /\ stored' = stored + 1
    /\ UNCHANGED <<camVars, start_time, running, lock, upc, uframe, mpc,
                   thread, last_call, now, starts, reads, survVars, gvVars>>

UpdIteration(scenes, maxf) ==
    /\ UpdStore(scenes, maxf)
    /\ UNCHANGED botVars

\* One iteration of the loop of _update in which the device read fails:
\* self._device.read() returns (False, None), and None is stored as the
\* cached frame and counted like any frame.
UpdNoFrame(maxf) ==
    /\ upc = "grab"
    /\ running
    /\ lock = "free"
    /\ captured < maxf
    /\ frame' = NoFrame
    /\ frame_count' = frame_count + 1
    /\ captured' = captured + 1
    /\ stored' = stored + 1
    /\ UNCHANGED <<botVars, camVars, start_time, running, lock, upc, uframe,
                   mpc, thread, last_call, now, starts, reads, survVars,
                   gvVars>>

\* No earlier capture thread is alive.
NoThread == [pc |-> "none", frame |-> NoFrame]

\* start() called by a second thread while the first is inside stop(),
\* after `self._running = False` and before its join() has returned.  The
\* test `not self._running` succeeds, so the counter and the start time are
\* reset and a new capture thread is launched, whatever the earlier thread
\* is doing: self._thread now names the new one, and the earlier one goes
\* on from where it is.
CamStartOther ==
    /\ ctor = "ok"
    /\ mpc = "join"
    /\ ~running
    /\ old = NoThread
    /\ starts < MaxStarts
    /\ now < MaxTime
    /\ frame_count' = 0
    /\ start_time' = now
    /\ now' = now + 1
    /\ running' = TRUE
    /\ old' = IF upc \in {"none", "done"}
              THEN [pc |-> "done", frame |-> NoFrame]
              ELSE [pc |-> upc, frame |-> uframe]
    /\ upc' = "grab"
    /\ thread' = "started"
    /\ last_call' = "start"
    /\ captured' = 0
    /\ stored' = 0
    /\ starts' = starts + 1
    /\ reads' = <<>>
    /\ UNCHANGED <<bot_data, chat, confVars, heapVars, error, camVars, frame,
                   lock, uframe, mpc, survVars, gvVars>>

\* stop(), second half, when `self._thread` was read before the other
\* thread's start() replaced it: join() returns once the earlier capture
\* thread has finished.
CamStopJoinOld ==
    /\ mpc = "join"
    /\ old.pc = "done"
    /\ old' = NoThread
    /\ mpc' = "ready"
    /\ UNCHANGED <<bot_data, chat, confVars, heapVars, error, camVars, frame,
                   frame_count, start_time, running, lock, upc, uframe,
                   thread, last_call, now, captured, stored, starts, reads,
                   survVars, gvVars>>

\* The earlier capture thread in _update: the loop condition and the
\* device read.
OldGrab ==
    /\ old.pc = "grab"
    /\ IF running
       THEN /\ captured < MaxFrames
            /\ \E s \in Scenes :
                  old' = [pc |-> "lock", frame |-> Frame(captured + 1, s)]
            /\ captured' = captured + 1
       ELSE /\ old' = [old EXCEPT !.pc = "done"]
            /\ UNCHANGED captured
    /\ UNCHANGED <<bot_data, chat, confVars, heapVars, error, camVars, frame,
                   frame_count, start_time, running, lock, upc, uframe, mpc,
                   thread, last_call, now, stored, starts, reads, survVars,
                   gvVars>>

\* The earlier capture thread: `with self._lock:` (acquire)
OldAcquire ==
    /\ old.pc = "lock"
    /\ lock = "free"
    /\ lock' = "update"
    /\ old' = [old EXCEPT !.pc = "set_frame"]
    /\ UNCHANGED <<bot_data, chat, confVars, heapVars, error, camVars, frame,
                   frame_count, start_time, running, upc, uframe, mpc, thread,
                   last_call, now, captured, stored, starts, reads, survVars,
                   gvVars>>

\* The earlier capture thread: `self._frame = frame`
OldSetFrame ==
    /\ old.pc = "set_frame"
    /\ frame' = old.frame
    /\ old' = [old EXCEPT !.pc = "set_count"]
    /\ UNCHANGED <<bot_data, chat, confVars, heapVars, error, camVars,
                   frame_count, start_time, running, lock, upc, uframe, mpc,
                   thread, last_call, now, captured, stored, starts, reads,
                   survVars, gvVars>>

\* The earlier capture thread: `self._frame_count += 1`, and the end of
\* the with block
OldSetCount ==
    /\ old.pc = "set_count"
    /\ frame_count' = frame_count + 1
    /\ stored' = stored + 1
    /\ lock' = "free"
    /\ old' = [old EXCEPT !.pc = "grab"]
    /\ UNCHANGED <<bot_data, chat, confVars, heapVars, error, camVars, frame,
                   start_time, running, upc, uframe, mpc, thread, last_call,
                   now, captured, starts, reads, survVars, gvVars>>

\* The wall clock advances.
Tick ==
    /\ now < MaxTime
    /\ now' = now + 1
    /\ UNCHANGED <<botVars, camVars, devVars, reads, survVars, gvVars>>

\* A read() that does not wait for the lock.
ReadUnlocked == TRUE

\* CameraDevice.read(): under the lock, the counter and a copy of the
\* cached frame.  Enabled when the lock can be taken.
CanRead == lock = "free"

read == [frame_id |-> frame_count, frame |-> frame]

\* Camera.get_photo(): one read(); the model records what it returned and
\* how many frames the capture loop had stored by then.  `self._frame.copy()`
\* raises AttributeError when the cached frame is None, and nothing is
\* returned.
GetPhoto ==
    /\ ctor = "ok"
    /\ dpc = "ready"
    /\ CanRead
    /\ Len(reads) < MaxReads
    /\ IF frame = NoFrame
       THEN /\ error' = "AttributeError"
            /\ UNCHANGED reads
       ELSE /\ error' = "none"
            /\ reads' = Append(reads, [frame_id |-> read.frame_id,
                                       n |-> read.frame.n,
                                       stored |-> stored])
    /\ UNCHANGED <<bot_data, chat, confVars, heapVars, old, camVars, devVars,
                   now, survVars, gvVars>>

----------------------------------------------------------------------------
(* The image buffers behind the frames.  An image is an array that its    *)
(* holders share by reference: heap[ref] is the frame a buffer shows, the  *)
(* marks drawn on it, and where it comes from (the device or a copy).      *)

Consumers == {"get_photo", "motion_detection"}

Buffer(f, origin) ==
    [n |-> f.n, scene |-> f.scene, marks |-> {}, origin |-> origin]

\* The constructor's frame, one of the background, is the only buffer;
\* nobody has read.  (The buffers are followed in SpecFrames only.)
InitHeap ==
    /\ heap = <<Buffer(Frame(0, 0), "device")>>
    /\ cached = 1
    /\ held = [c \in Consumers |-> 0]
    /\ returned = <<>>

\* One iteration of _update with the buffer it stores: the array that
\* self._device.read() returns is a new one.
UpdBuffers(scenes, maxf) ==
    /\ UpdStore(scenes, maxf)
    /\ heap' = Append(heap, Buffer(frame', "device"))
    /\ cached' = Len(heap) + 1
    /\ UNCHANGED <<bot_data, chat, confVars, held, returned, liveVars>>

\* A read() that hands out the cached array itself.
SameRef(ref, fresh) == ref

\* `self._frame.copy()`: the reference to the copy, a buffer of its own.
CopyRef(ref, fresh) == fresh

\* CameraDevice._add_timestamp: the text is drawn on the array given.
add_timestamp(h, ref) == [h EXCEPT ![ref].marks = @ \cup {"timestamp"}]

\* Camera._draw_contours: the rectangle is drawn on the array given.
draw_contours(h, ref) == [h EXCEPT ![ref].marks = @ \cup {"contours"}]

\* CameraDevice.read(timestamp) called by consumer c, with the buffers:
\* the copy is made under the lock, the timestamp drawn after it.
ReadFrame(c, timestamp) ==
    /\ ctor = "ok"
    /\ CanRead
    /\ Len(returned) < MaxReads
    /\ LET ref == CopyRef(cached, Len(heap) + 1)
           h1 == Append(heap, [heap[cached] EXCEPT !.origin = "copy"])
           h2 == IF timestamp THEN add_timestamp(h1, ref) ELSE h1
       IN  /\ heap' = h2
           /\ held' = [held EXCEPT ![c] = ref]
           /\ returned' = Append(returned,
                  [by |-> c, ref |-> ref, frame_id |-> read.frame_id,
                   timestamp |-> timestamp, image |-> h2[ref]])
    /\ UNCHANGED <<bot_data, chat, confVars, cached, camVars, devVars, now,
                   reads, survVars, gvVars, liveVars>>

\* _motion_detection draws the contours found on the frame it read last
\* (any frame may be one with a contour large enough).
DrawContours ==
    /\ held["motion_detection"] # 0
    /\ heap' = draw_contours(heap, held["motion_detection"])
    /\ UNCHANGED <<bot_data, chat, confVars, cached, held, returned, camVars,
                   devVars, now, reads, survVars, gvVars, liveVars>>

----------------------------------------------------------------------------
(* Motion detection *)

\* _get_motion_contours on the blurred grey versions of two frames, as the
\* contour areas found: the thresholded, closed difference of two frames
\* that show the same scene is empty; between two different scenes it
\* holds the block of each (the background scene has none).
get_motion_contours(s1, s2) ==
    IF s1 = s2 THEN {}
    ELSE {BlockArea(s) : s \in {x \in {s1, s2} : BlockArea(x) > 0}}

\* The loop over the contours in _motion_detection: a contour of area
\* below 2000 is skipped, any other sets detected.
MinArea == 2000

\* A loop over the contours that wants an area above 2000.
DetectedAbove(prev, cur) ==
    \E a \in get_motion_contours(prev, cur) : a > MinArea

Detected(prev, cur) ==
    \E a \in get_motion_contours(prev, cur) : ~(a < MinArea)

----------------------------------------------------------------------------
(* Surveillance streams: Bot._async_command_surveillance_start driving     *)
(* the generators Camera.surveillance_start and Camera._motion_detection.  *)

Handlers == {"h1", "h2"}

\* The order in which the pool hands out its threads.
Before(g, h) == g = "h1" /\ h = "h2"

\* Configured durations, in clock units.
VideoSeconds == {1, 2}
PictureSeconds == {1, 2}

\* A handler thread with no command running, and the locals of a stream
\* before its generators have run.
\*\ No loop of the handler has exited since its command.
NoRun == [status |-> "none", events |-> <<>>, released |-> 0]

\* The 'Recording ...' messages of a handler: how many it has sent (the
\* n-th has message id n), which one waiting_message holds (None: none)
\* and the ids it has passed to delete_message, in order.
NoWaiting == [sent |-> 0, waiting_message |-> None, deleted |-> <<>>]

FreshStream ==
    [pc |-> "ready",            \* position of the handler thread
     timestamp |-> TRUE,
     video_seconds |-> 0,
     picture_seconds |-> 0,
     contours |-> TRUE,
     fps |-> [num |-> 0, den |-> 1],
     status |-> "idle",         \* Camera.STATE_IDLE
     processed |-> <<>>,
     n_frames |-> [num |-> 0, den |-> 1],
     written |-> <<>>,          \* frame ids given to video_writer.write
     last_frame_id |-> 0,
     previous_frame |-> None,
     ev |-> [detected |-> FALSE, frame_id |-> 0],
     marks |-> {},              \* what is drawn on the frame yielded last
     seen |-> <<>>,             \* the first frames the loop processed:
                                \* the scene of each and what was yielded
     events |-> <<>>,           \* what surveillance_start has yielded
     released |-> 0,            \* calls of video_writer.release()
     actions |-> <<>>,          \* the chat actions the handler has sent
     waiting |-> NoWaiting,     \* its 'Recording ...' messages
     ended |-> NoRun,           \* what the loop left when it exited
     reply |-> "none",          \* the handler's last reply to the chat
     stop_seen |-> FALSE]       \* surveillance_stop() ran during the loop

\* What surveillance_start yields: the type of the event, a photo's id and
\* total, and for a video the frame ids written to its file and the target
\* n_frames of its session.
Event(type, id, total, frames, target) ==
    [type |-> type, id |-> id, total |-> total, frames |-> frames,
     target |-> target]

\* a < b for fractions with positive denominators
FracLess(a, b) == a.num * b.den < b.num * a.den

Whole(n) == [num |-> n, den |-> 1]

\* fps * seconds
Times(f, seconds) == [num |-> f.num * seconds, den |-> f.den]

\* int(x) for a fraction x >= 0
Floor(x) == x.num \div x.den

InSeq(x, seq) == \E i \in 1..Len(seq) : seq[i] = x

\* The motion-detection loop of handler h has started and not exited.
LoopRunning(h) == stream[h].pc \in {"poll", "read"}

\* A guard that never finds surveillance active.
NeverStarted == FALSE

\* The guard of _async_command_surveillance_start.
AlreadyStarted == surveillance_mode

\* /surveillance_start received by handler thread h, the first free thread
\* of the pool: declined when surveillance is active; else the
\* configuration (one of the given values of the time stamping, the video
\* durations, the picture intervals and the contour drawing) is read, the
\* reply sent and the generator created (its body has not run yet).
SurvStartCallback(h, timestamps, durations, intervals, contours) ==
    /\ ctor = "ok"
    /\ stream[h].pc = "ready"
    /\ \A g \in Handlers : Before(g, h) => stream[g].pc # "ready"
    /\ IF AlreadyStarted
       THEN stream' = [stream EXCEPT ![h].reply = "already started"]
       ELSE \E ts \in timestamps, vs \in durations, ps \in intervals,
               cs \in contours :
               stream' = [stream EXCEPT ![h] =
                   [FreshStream EXCEPT !.pc = "begin",
                                       !.timestamp = ts,
                                       !.video_seconds = vs,
                                       !.picture_seconds = ps,
                                       !.contours = cs,
                                       !.reply = "started"]]
    /\ UNCHANGED <<camVars, devVars, now, reads, surveillance_mode,
                   last_switch, gvVars>>

\* /surveillance_start from the authorized user, the configuration values
\* being there, time stamping and contour drawing enabled.
SurvStartCmd(h, durations, intervals) ==
    /\ SurvStartCallback(h, {TRUE}, durations, intervals, {TRUE})
    /\ UNCHANGED botVars

\* A first next() that leaves the mode flag alone.
StreamBeginNoFlag(h) ==
    /\ stream[h].pc = "begin"
    /\ stream' = [stream EXCEPT ![h].fps = fps, ![h].pc = "poll"]
    /\ last_switch' = "loop start"
    /\ UNCHANGED <<botVars, camVars, devVars, now, reads, surveillance_mode, gvVars>>

\* The first next() on the stream: surveillance_start measures fps and
\* enters its for loop, and _motion_detection sets the mode flag.
StreamBegin(h) ==
    /\ stream[h].pc = "begin"
    /\ stream' = [stream EXCEPT ![h].fps = fps, ![h].pc = "poll"]
    /\ surveillance_mode' = TRUE
    /\ last_switch' = "loop start"
    /\ UNCHANGED <<botVars, camVars, devVars, now, reads, gvVars>>

\* An exit that completes the session under way: the writer released and
\* the video yielded.
OnExitFinalise(s) ==
    IF s.status = "motion_detected"
    THEN [status |-> "idle",
          events |-> Append(s.events,
                            Event("video", 0, 0, s.written, s.n_frames)),
          released |-> s.released + 1]
    ELSE [status |-> s.status, events |-> s.events, released |-> s.released]

\* What the two generators leave when the while loop ends: nothing runs
\* after the for loop of surveillance_start, whatever its state is.
OnExit(s) ==
    [status |-> s.status, events |-> s.events, released |-> s.released]

\* The body of the for loop of _async_command_surveillance_start for one
\* thing yielded: the waiting message it sends or deletes.
OnDataWaiting(w, data) ==
    CASE data.type = "detected" ->
            [w EXCEPT !.sent = @ + 1, !.waiting_message = w.sent + 1]
      [] data.type = "photo" -> w
      [] data.type = "video" ->
            IF w.waiting_message # None
            THEN [w EXCEPT !.deleted = Append(@, w.waiting_message),
                           !.waiting_message = None]
            ELSE w

RECURSIVE DeliverWaiting(_, _)
DeliverWaiting(w, evs) ==
    IF evs = <<>>
    THEN w
    ELSE DeliverWaiting(OnDataWaiting(w, Head(evs)), Tail(evs))

\* After the for loop: `if waiting_message: delete_message(...)`
AfterLoop(w) ==
    IF w.waiting_message # None
    THEN [w EXCEPT !.deleted = Append(@, w.waiting_message)]
    ELSE w

\* `while self._surveillance_mode:`; when the flag is off both generators
\* end, their locals with them, and the handler replies that surveillance
\* stopped, after it has deleted the waiting message it may hold.
MDPoll(h) ==
    /\ stream[h].pc = "poll"
    /\ IF surveillance_mode
       THEN stream' = [stream EXCEPT ![h].pc = "read"]
       ELSE stream' = [stream EXCEPT ![h] =
                [FreshStream EXCEPT
                    !.reply = "stopped",
                    !.waiting = AfterLoop(stream[h].waiting),
                    !.ended = OnExit(stream[h])]]
    /\ UNCHANGED <<botVars, camVars, devVars, now, reads, surveillance_mode,
                   last_switch, gvVars>>

\* An Idle block that opens the session without the frame of the event.
OnIdleNoWrite(s) ==
    IF s.status = "idle" /\ s.ev.detected
    THEN [s EXCEPT !.events = Append(@, Event("detected", 0, 0, <<>>, Whole(0))),
                   !.status = "motion_detected",
                   !.n_frames = Times(s.fps, s.video_seconds),
                   !.processed = <<>>,
                   !.written = <<>>]
    ELSE s

\* The `if status == Camera.STATE_IDLE:` block of surveillance_start for
\* the event s.ev.
OnIdle(s) ==
    IF s.status = "idle" /\ s.ev.detected
    THEN [s EXCEPT !.events = Append(@, Event("detected", 0, 0, <<>>, Whole(0))),
                   !.status = "motion_detected",
                   !.n_frames = Times(s.fps, s.video_seconds),
                   !.processed = <<s.ev.frame_id>>,
                   !.written = <<s.ev.frame_id>>]
    ELSE s

\* int(fps * picture_seconds)
PhotoEvery(s) == Floor(Times(s.fps, s.picture_seconds))

\* A photo check that yields a photo for every event.
OnPhotoAlways(s) ==
    [s EXCEPT !.events = Append(@,
        Event("photo", Len(s.processed) \div PhotoEvery(s),
              s.video_seconds \div s.picture_seconds, <<>>, Whole(0)))]

\* The photo check of the STATE_MOTION_DETECTED block (PhotoEvery(s) > 0).
OnPhoto(s) ==
    IF Len(s.processed) % PhotoEvery(s) = 0
    THEN [s EXCEPT !.events = Append(@,
              Event("photo", Len(s.processed) \div PhotoEvery(s),
                    s.video_seconds \div s.picture_seconds, <<>>,
                    Whole(0)))]
    ELSE s

\* An append that does not look at the frames already recorded.
SurvAlwaysNew(s) == TRUE

\* `if frame_id not in processed:` in surveillance_start
SurvIsNew(s) == ~InSeq(s.ev.frame_id, s.processed)

\* A finalisation that forgets to go back to STATE_IDLE.
OnRecordStays(s) ==
    IF FracLess(Whole(Len(s.processed)), s.n_frames)
    THEN IF ~InSeq(s.ev.frame_id, s.processed)
         THEN [s EXCEPT !.processed = Append(@, s.ev.frame_id),
                        !.written = Append(@, s.ev.frame_id)]
         ELSE s
    ELSE [s EXCEPT !.released = @ + 1,
                   !.events = Append(@,
              Event("video", 0, 0, s.written, s.n_frames))]

\* The frame-append / finalise part of the STATE_MOTION_DETECTED block.
OnRecord(s) ==
    IF FracLess(Whole(Len(s.processed)), s.n_frames)
    THEN IF SurvIsNew(s)
         THEN [s EXCEPT !.processed = Append(@, s.ev.frame_id),
                        !.written = Append(@, s.ev.frame_id)]
         ELSE s
    ELSE [s EXCEPT !.released = @ + 1,
                   !.events = Append(@,
              Event("video", 0, 0, s.written, s.n_frames)),
                   !.status = "idle"]

\* A block that appends the frame before it looks at the photo interval.
OnMotionDetectedAppendFirst(s) == OnPhoto(OnRecord(s))

\* The `if status == Camera.STATE_MOTION_DETECTED:` block of
\* surveillance_start: the photo check, then the append or the
\* finalisation.
OnMotionDetected(s) == OnRecord(OnPhoto(s))

\* A handler that sends no record_video after a photo.
OnDataPhotoOnly(actions, data) ==
    CASE data.type = "detected" -> Append(actions, "record_video")
      [] data.type = "photo" -> Append(actions, "upload_photo")
      [] data.type = "video" -> Append(actions, "upload_video")

\* The body of the for loop of _async_command_surveillance_start for one
\* thing yielded: the chat actions it sends.
OnData(actions, data) ==
    CASE data.type = "detected" -> Append(actions, "record_video")
      [] data.type = "photo" -> actions \o <<"upload_photo", "record_video">>
      [] data.type = "video" -> Append(actions, "upload_video")

\* The handler's loop body run for each of the things yielded, in order.
RECURSIVE Deliver(_, _)
Deliver(actions, evs) ==
    IF evs = <<>>
    THEN actions
    ELSE Deliver(OnData(actions, Head(evs)), Tail(evs))

\* What s1 has yielded more than s.
Yielded(s, s1) == SubSeq(s1.events, Len(s.events) + 1, Len(s1.events))

\* The body of the for loop of surveillance_start for the motion event
\* s.ev, with what the bot does for each thing yielded.  The modulo by
\* int(fps * picture_seconds) raises ZeroDivisionError when that is 0: the
\* handler thread ends with the error, the state and the session of
\* surveillance_start as the error found them, and the mode flag is left
\* as it is.
HandleEvent(s) ==
    LET s1 == OnIdle(s)
    IN  IF s1.status # "motion_detected"
        THEN [s1 EXCEPT !.pc = "poll"]
        ELSE IF PhotoEvery(s1) = 0
        THEN [FreshStream EXCEPT
                 !.status = s1.status,
                 !.n_frames = s1.n_frames,
                 !.processed = s1.processed,
                 !.written = s1.written,
                 !.events = s1.events,
                 !.seen = s1.seen,
                 !.ev = s1.ev,
                 !.actions = Deliver(s.actions, Yielded(s, s1)),
                 !.waiting = DeliverWaiting(s.waiting, Yielded(s, s1)),
                 !.reply = "ZeroDivisionError"]
        ELSE LET s2 == OnMotionDetected(s1)
             IN  [s2 EXCEPT !.pc = "poll",
                            !.actions =
                                Deliver(s.actions, Yielded(s, s2)),
                            !.waiting =
                                DeliverWaiting(s.waiting, Yielded(s, s2))]

\* The record of the first three frames the loop of _motion_detection
\* processed, with the frame of scene `scene` and what the loop yielded
\* for it added.
Seen(s, scene, out) ==
    IF Len(s.seen) < 3
    THEN Append(s.seen, [scene |-> scene, out |-> out])
    ELSE s.seen

\* A loop that takes every read for a new frame.
MDAlwaysNew(s, r) == TRUE

\* `if frame_id == last_frame_id: continue` in _motion_detection
MDIsNew(s, r) == r.frame_id # s.last_frame_id

\* A loop that goes on comparing with the frame it had before.
KeepPrevious(s, r) == s.previous_frame

\* `previous_frame = gray` before the yield
NextPrevious(s, r) == r.frame.scene

\* A loop over the contours that sets detected only where it draws.
MDDetectedIfDrawn(s, r) ==
    s.contours /\ Detected(s.previous_frame, r.frame.scene)

\* The loop over motion_contours for the frame read: detected is set for
\* a contour that is not skipped, whether or not it is drawn.
MDDetected(s, r) == Detected(s.previous_frame, r.frame.scene)

\* Marks taken from the configuration as it is now.
MarksNow(s, detected) ==
    (IF bot_data["timestamp"] THEN {"timestamp"} ELSE {})
        \cup (IF bot_data["srv_motion_contours"] /\ detected
              THEN {"contours"} ELSE {})

\* What is drawn on the frame yielded: the timestamp by
\* read(timestamp=timestamp), and the rectangle of each contour that is not
\* skipped `if contours`.
Marks(s, detected) ==
    (IF s.timestamp THEN {"timestamp"} ELSE {})
        \cup (IF s.contours /\ detected THEN {"contours"} ELSE {})

\* One pass of the body of the _motion_detection loop: a read; a frame
\* already seen is skipped, the first new one becomes the baseline, any
\* later one is compared with the previous one and yielded to
\* surveillance_start, whose loop body then runs for it.
MDRead(h) ==
    /\ stream[h].pc = "read"
    /\ CanRead
    /\ LET s == stream[h]
           r == read
       IN  IF ~MDIsNew(s, r)
           THEN stream' = [stream EXCEPT ![h].pc = "poll"]
           ELSE IF s.previous_frame = None
           THEN stream' = [stream EXCEPT
                    ![h].last_frame_id = r.frame_id,
                    ![h].previous_frame = r.frame.scene,
                    ![h].seen = Seen(s, r.frame.scene, "nothing"),
                    ![h].pc = "poll"]
           ELSE LET detected == MDDetected(s, r)
                IN  stream' = [stream EXCEPT ![h] = HandleEvent(
                       [s EXCEPT
                          !.last_frame_id = r.frame_id,
                          !.marks = Marks(s, detected),
                          !.previous_frame = NextPrevious(s, r),
                          !.seen = Seen(s, r.frame.scene,
                                        IF detected THEN "detected=true"
                                                    ELSE "detected=false"),
                          !.ev = [detected |-> detected,
                                  frame_id |-> r.frame_id]])]
    /\ UNCHANGED <<botVars, camVars, devVars, now, reads, surveillance_mode,
                   last_switch, gvVars>>

----------------------------------------------------------------------------
(* Camera.get_video, run by /get_video on the dispatcher thread *)

NoVideo == [seconds |-> 0, n_frames |-> Whole(0), processed |-> <<>>,
            written |-> <<>>,       \* frame ids given to video_writer.write
            skipped |-> FALSE,      \* a read returned a frame already taken
            returned |-> FALSE]

\* get_video up to its loop: the writer is created and the target
\* n_frames = fps * seconds computed.
GvStart(durations) ==
    /\ ctor = "ok"
    /\ dpc = "ready"
    /\ \E sec \in durations :
          gv' = [NoVideo EXCEPT !.seconds = sec,
                                !.n_frames = Times(fps, sec)]
    /\ dpc' = "get_video"
    /\ UNCHANGED <<botVars, camVars, devVars, now, reads, survVars>>

\* A loop condition that stops one frame early.
GvMoreShort(g) == FracLess(Whole(Len(g.processed) + 1), g.n_frames)

\* A loop condition that gives up when the clock reaches a deadline.
GvMoreUntilDeadline(g) ==
    FracLess(Whole(Len(g.processed)), g.n_frames) /\ now < MaxTime

\* `while len(processed) < n_frames:`
GvMore(g) == FracLess(Whole(Len(g.processed)), g.n_frames)

\* `if frame_id not in processed:` in get_video
GvIsNew(g, r) == ~InSeq(r.frame_id, g.processed)

\* One test of the loop condition of get_video and either one pass of its
\* body or, the target reached, the release of the writer and the return.
GvLoop ==
    /\ dpc = "get_video"
    /\ IF GvMore(gv)
       THEN /\ CanRead
            /\ gv' = IF GvIsNew(gv, read)
                     THEN [gv EXCEPT
                             !.processed = Append(@, read.frame_id),
                             !.written = Append(@, read.frame_id)]
                     ELSE [gv EXCEPT !.skipped = TRUE]
            /\ UNCHANGED dpc
       ELSE /\ gv' = [gv EXCEPT !.returned = TRUE]
            /\ dpc' = "upload"
    /\ UNCHANGED <<botVars, camVars, devVars, now, reads, survVars>>

\* _command_get_video after get_video has returned: the video is sent and
\* the command ends.
GvUpload ==
    /\ dpc = "upload"
    /\ gv' = NoVideo
    /\ dpc' = "ready"
    /\ UNCHANGED <<botVars, camVars, devVars, now, reads, survVars>>

----------------------------------------------------------------------------
\* /surveillance_stop on the dispatcher thread: declined when surveillance
\* is not active, else Camera.surveillance_stop() clears the flag.
\* A handler that calls Camera.surveillance_stop() whether or not
\* surveillance is active.
SurvStopAlways ==
    /\ ctor = "ok"
    /\ dpc = "ready"
    /\ surveillance_mode' = FALSE
    /\ last_switch' = "stop"
    /\ stream' = [h \in Handlers |->
         IF LoopRunning(h)
         THEN [stream[h] EXCEPT !.stop_seen = TRUE]
         ELSE stream[h]]
    /\ UNCHANGED <<camVars, devVars, now, reads, gvVars>>

SurvStopCallback ==
    /\ ctor = "ok"
    /\ dpc = "ready"
    /\ IF ~surveillance_mode
       THEN UNCHANGED <<surveillance_mode, last_switch, stream>>
       ELSE /\ surveillance_mode' = FALSE
            /\ last_switch' = "stop"
            /\ stream' = [h \in Handlers |->
                 IF LoopRunning(h)
                 THEN [stream[h] EXCEPT !.stop_seen = TRUE]
                 ELSE stream[h]]
    /\ UNCHANGED <<camVars, devVars, now, reads, gvVars>>

\* /surveillance_stop from the authorized user, the configuration values
\* being there.
SurvStopCmd ==
    /\ SurvStopCallback
    /\ UNCHANGED botVars

----------------------------------------------------------------------------
(* Configuration values and the wrapper of the command handlers *)

Keys == {"timestamp", "od_video_duration", "srv_video_duration",
         "srv_picture_interval", "srv_motion_contours"}

\* context.bot_data with nothing stored
NoData == [k \in {} |-> TRUE]

\* bot_data[key] = value
Store(bd, key, value) ==
    [k \in DOMAIN bd \cup {key} |-> IF k = key THEN value ELSE bd[k]]

\* A default that replaces the value stored.
SetDefaultOver(bd, key, value) == Store(bd, key, value)

\* `if key not in context.bot_data: context.bot_data[key] = value`
SetDefault(bd, key, value) ==
    IF key \notin DOMAIN bd THEN Store(bd, key, value) ELSE bd

\* BotConfig.ensure_defaults
ensure_defaults(bd) ==
    LET b1 == SetDefault(bd, "timestamp", TRUE)
        b2 == SetDefault(b1, "od_video_duration", 5)
        b3 == SetDefault(b2, "srv_video_duration", 30)
        b4 == SetDefault(b3, "srv_picture_interval", 5)
    IN  SetDefault(b4, "srv_motion_contours", TRUE)

\* What the persistence may hold when the bot starts: any of the values
\* may be missing, and a value stored may be the default or another one.
Opt(S) == [present : BOOLEAN, value : S]

StoredConfigs ==
    {[k \in {x \in Keys : c[x].present} |-> c[k].value] :
        c \in [timestamp : Opt(BOOLEAN),
               od_video_duration : Opt({5, 7}),
               srv_video_duration : Opt({30, 10}),
               srv_picture_interval : Opt({5, 3}),
               srv_motion_contours : Opt(BOOLEAN)]}

(* The configuration conversation (bot_config.py): a ConversationHandler  *)
(* entered with /config, whose states are the menus and the two inputs.    *)

\* A text message, as the sequence of its characters.
Texts ==
    {<<"4", "2">>, <<"1">>, <<"9", "9">>, <<" ", "7", " ">>, <<"+", "5">>,
     <<"0">>, <<"1", "0", "0">>, <<"-", "1">>, <<"1", "0", "1">>,
     <<"B", "A", "D">>, <<"1", ".", "5">>,
     <<"/", "s", "t", "o", "p", "_", "c", "o", "n", "f", "i", "g">>}

DigitChars == <<"0", "1", "2", "3", "4", "5", "6", "7", "8", "9">>

IsDigit(c) == \E i \in 1..Len(DigitChars) : DigitChars[i] = c

DigitValue(c) == (CHOOSE i \in 1..Len(DigitChars) : DigitChars[i] = c) - 1

RECURSIVE LStrip(_)
LStrip(t) == IF t # <<>> /\ t[1] = " " THEN LStrip(Tail(t)) ELSE t

RECURSIVE RStrip(_)
RStrip(t) ==
    IF t # <<>> /\ t[Len(t)] = " "
    THEN RStrip(SubSeq(t, 1, Len(t) - 1))
    ELSE t

\* Digits, with single underscores between digits.
IsLiteral(d) ==
    /\ d # <<>>
    /\ \A i \in 1..Len(d) :
          \/ IsDigit(d[i])
          \/ /\ d[i] = "_"
             /\ 1 < i /\ i < Len(d)
             /\ IsDigit(d[i - 1]) /\ IsDigit(d[i + 1])

RECURSIVE LiteralValue(_, _)
LiteralValue(d, acc) ==
    IF d = <<>> THEN acc
    ELSE IF d[1] = "_" THEN LiteralValue(Tail(d), acc)
    ELSE LiteralValue(Tail(d), acc * 10 + DigitValue(d[1]))

\* int(text): the value of a decimal literal with an optional sign and
\* surrounding whitespace; ok = FALSE stands for ValueError.
int(text) ==
    LET s == RStrip(LStrip(text))
        signed == s # <<>> /\ s[1] \in {"+", "-"}
        d == IF signed THEN Tail(s) ELSE s
    IN  IF IsLiteral(d)
        THEN [ok |-> TRUE,
              value |-> IF signed /\ s[1] = "-"
                        THEN 0 - LiteralValue(d, 0)
                        ELSE LiteralValue(d, 0)]
        ELSE [ok |-> FALSE, value |-> 0]

Update(kind, data) == [kind |-> kind, data |-> data]

NoUpdate == Update("none", "none")

\* context.user_data with nothing stored
NoUserData == [k \in {} |-> "none"]

\* No menu step has asked for a value.
NoAsk == [menu |-> "none", data |-> "none"]

\* BotConfig._main_menu
main_menu ==
    /\ conv' = "MAIN_MENU"
    /\ sent' = "Select section:"

\* BotConfig._general_config
general_config ==
    /\ conv' = "GENERAL_CONFIG"
    /\ sent' = "General configuration"

\* BotConfig._surveillance_config
surveillance_config ==
    /\ conv' = "SURVEILLANCE_CONFIG"
    /\ sent' = "Surveillance Mode configuration"

\* Calling the handler stored in user_data[RETURN_HANDLER].
Call(handler) ==
    CASE handler = "_general_config" -> general_config
      [] handler = "_surveillance_config" -> surveillance_config

\* BotConfig._boolean_question
boolean_question(text, current_variable, return_handler) ==
    /\ user_data' = [CURRENT_VARIABLE |-> current_variable,
                     RETURN_HANDLER |-> return_handler]
    /\ sent' = text
    /\ conv' = "BOOLEAN_INPUT"

\* BotConfig._integer_question
integer_question(text, current_variable, return_handler) ==
    /\ user_data' = [CURRENT_VARIABLE |-> current_variable,
                     RETURN_HANDLER |-> return_handler]
    /\ sent' = text
    /\ conv' = "INTEGER_INPUT"

\* BotConfig._change_timestamp
change_timestamp ==
    boolean_question("Select state for time stamping:", "timestamp",
                     "_general_config")

\* BotConfig._change_od_video_duration
change_od_video_duration ==
    integer_question("Type value for video duration:", "od_video_duration",
                     "_general_config")

\* BotConfig._change_srv_video_duration
change_srv_video_duration ==
    integer_question("Type value for video duration:", "srv_video_duration",
                     "_surveillance_config")

\* BotConfig._change_srv_picture_interval
change_srv_picture_interval ==
    integer_question("Type value for picture interval:",
                     "srv_picture_interval", "_surveillance_config")

\* The question that comes back to the general configuration.
ChangeMotionContoursToGeneral ==
    boolean_question("Select state for motion contours:",
                     "srv_motion_contours", "_general_config")

\* BotConfig._change_motion_contours
change_motion_contours ==
    boolean_question("Select state for motion contours:",
                     "srv_motion_contours", "_surveillance_config")

\* BotConfig._boolean_input
boolean_input(data) ==
    /\ bot_data' = Store(bot_data, user_data["CURRENT_VARIABLE"],
                         data = "ENABLE")
    /\ Call(user_data["RETURN_HANDLER"])

\* A validation that lets 0 and 100 through.
InRangeWide(value) == ~(value < 0 \/ value > 100)

\* `if value < 1 or value > 99: raise ValueError`
InRange(value) == ~(value < 1 \/ value > 99)

\* BotConfig._integer_input
integer_input(text) ==
    IF int(text).ok /\ InRange(int(text).value)
    THEN /\ bot_data' = Store(bot_data, user_data["CURRENT_VARIABLE"],
                              int(text).value)
         /\ Call(user_data["RETURN_HANDLER"])
    ELSE /\ sent' = "Invalid value, insert an integer number between 1 and 99"
         /\ conv' = "INTEGER_INPUT"
         /\ UNCHANGED bot_data

\* BotConfig._end
end(kind) ==
    /\ user_data' = NoUserData
    /\ sent' = IF kind = "query"
               THEN "Configuration done."
               ELSE "Configuration canceled."
    /\ conv' = "END"

Users == {"owner", "stranger"}

\* Bot.authorized_user
authorized_user == "owner"

Commands == {"surveillance_start", "surveillance_stop",
             "surveillance_status"}

Chat(user, command, reply, log) ==
    [user |-> user, command |-> command, reply |-> reply, log |-> log]

NoChat == Chat("none", "none", "none", "none")

\* The callback of a command with what it replies and logs, bd being the
\* configuration values after ensure_defaults.
Callback(user, cmd, bd) ==
    \/ /\ cmd = "surveillance_start"
       /\ \E h \in Handlers :
             SurvStartCallback(h, {bd["timestamp"]},
                               {bd["srv_video_duration"]},
                               {bd["srv_picture_interval"]},
                               {bd["srv_motion_contours"]})
       /\ UNCHANGED confVars
       /\ chat' = IF AlreadyStarted
                  THEN Chat(user, cmd,
                            "Error! Surveillance is already started",
                            "warning")
                  ELSE Chat(user, cmd, "Surveillance mode started", "info")
    \/ /\ cmd = "surveillance_stop"
       /\ SurvStopCallback
       /\ UNCHANGED confVars
       /\ chat' = IF surveillance_mode
                  THEN Chat(user, cmd, "none", "debug")
                  ELSE Chat(user, cmd, "Error! Surveillance is not started",
                            "warning")
    \/ /\ cmd = "surveillance_status"
       /\ chat' = IF surveillance_mode
                  THEN Chat(user, cmd, "Surveillance mode is active",
                            "debug")
                  ELSE Chat(user, cmd, "Surveillance mode is not active",
                            "debug")
       /\ UNCHANGED <<camVars, devVars, now, reads, survVars, gvVars,
                      confVars>>
    \/ /\ cmd = "config"
       /\ main_menu
       /\ chat' = Chat(user, cmd, "Select section:", "none")
       /\ update' = Update("command", cmd)
       /\ UNCHANGED <<camVars, devVars, now, reads, survVars, gvVars,
                      user_data, asked>>
    \/ /\ cmd = "stop_config"
       /\ end("message")
       /\ chat' = Chat(user, cmd, "Configuration canceled.", "none")
       /\ update' = Update("command", cmd)
       /\ UNCHANGED <<camVars, devVars, now, reads, survVars, gvVars,
                      asked>>

\* A wrapper that loads the defaults before it looks at who is calling.
wrappedDefaultsFirst(user, cmd) ==
    IF user # authorized_user
    THEN /\ chat' = Chat(user, cmd, "Unauthorized", "warning")
         /\ bot_data' = ensure_defaults(bot_data)
         /\ UNCHANGED <<camVars, devVars, now, reads, survVars, gvVars,
                        confVars, heapVars, liveVars>>
    ELSE /\ bot_data' = ensure_defaults(bot_data)
         /\ Callback(user, cmd, ensure_defaults(bot_data))
         /\ UNCHANGED <<heapVars, liveVars>>

\* command_handler.wrapped: a command from anyone but the authorized user
\* is logged and answered 'Unauthorized'; else the defaults are ensured
\* and the callback is called.
wrapped(user, cmd) ==
    IF user # authorized_user
    THEN /\ chat' = Chat(user, cmd, "Unauthorized", "warning")
         /\ UNCHANGED <<bot_data, camVars, devVars, now, reads, survVars,
                        gvVars, confVars, heapVars, liveVars>>
    ELSE /\ bot_data' = ensure_defaults(bot_data)
         /\ Callback(user, cmd, ensure_defaults(bot_data))
         /\ UNCHANGED <<heapVars, liveVars>>

\* The buttons of the menus and of the boolean question.
Buttons ==
    {"GENERAL_CONFIG", "SURVEILLANCE_CONFIG", "END", "CHANGE_TIMESTAMP",
     "CHANGE_OD_VIDEO_DURATION", "CHANGE_SRV_VIDEO_DURATION",
     "CHANGE_SRV_PICTURE_INTERVAL", "CHANGE_SRV_MOTION_CONTOURS", "ENABLE",
     "DISABLE"}

\* The entry point of the conversation: /config from a user who has no
\* conversation under way.  Only the authorized user ever has one.
ConfigCmd(user) ==
    /\ user = authorized_user => conv \in {"none", "END"}
    /\ wrapped(user, "config")

\* The fallback of the conversation: /stop_config when no handler of the
\* state takes the message.  MessageHandler(Filters.text) of INTEGER_INPUT
\* takes every text, a command too.
StopConfigCmd ==
    /\ conv \in {"MAIN_MENU", "GENERAL_CONFIG", "SURVEILLANCE_CONFIG",
                 "BOOLEAN_INPUT"}
    /\ wrapped(authorized_user, "stop_config")

\* A pressed button, taken by the CallbackQueryHandler of the state whose
\* pattern it matches.
CallbackQuery(data) ==
    /\ update' = Update("query", data)
    /\ \/ /\ conv = "MAIN_MENU"
          /\ \/ data = "GENERAL_CONFIG" /\ general_config
             \/ data = "SURVEILLANCE_CONFIG" /\ surveillance_config
          /\ UNCHANGED <<bot_data, user_data, asked>>
       \/ /\ conv = "MAIN_MENU"
          /\ data = "END"
          /\ end("query")
          /\ UNCHANGED <<bot_data, asked>>
       \/ /\ conv = "GENERAL_CONFIG"
          /\ \/ data = "CHANGE_TIMESTAMP" /\ change_timestamp
             \/ data = "CHANGE_OD_VIDEO_DURATION" /\ change_od_video_duration
          /\ asked' = [menu |-> conv, data |-> data]
          /\ UNCHANGED bot_data
       \/ /\ conv = "SURVEILLANCE_CONFIG"
          /\ \/ /\ data = "CHANGE_SRV_VIDEO_DURATION"
                /\ change_srv_video_duration
             \/ /\ data = "CHANGE_SRV_PICTURE_INTERVAL"
                /\ change_srv_picture_interval
             \/ /\ data = "CHANGE_SRV_MOTION_CONTOURS"
                /\ change_motion_contours
          /\ asked' = [menu |-> conv, data |-> data]
          /\ UNCHANGED bot_data
       \/ /\ conv \in {"GENERAL_CONFIG", "SURVEILLANCE_CONFIG"}
          /\ data = "END"
          /\ main_menu
          /\ UNCHANGED <<bot_data, user_data, asked>>
       \/ /\ conv = "BOOLEAN_INPUT"
          /\ data \in {"ENABLE", "DISABLE"}
          /\ boolean_input(data)
          /\ UNCHANGED <<user_data, asked>>
    /\ UNCHANGED <<camVars, devVars, now, reads, survVars, gvVars, chat,
                   heapVars, liveVars>>

\* A text message in the state INTEGER_INPUT.
TextMessage(text) ==
    /\ conv = "INTEGER_INPUT"
    /\ update' = Update("message", text)
    /\ integer_input(text)
    /\ UNCHANGED <<user_data, asked>>
    /\ UNCHANGED <<camVars, devVars, now, reads, survVars, gvVars, chat,
                   heapVars, liveVars>>

----------------------------------------------------------------------------

InitDevice ==
    /\ frame_count = 0
    /\ start_time = 0
    /\ running = FALSE
    /\ lock = "free"
    /\ upc = "none"
    /\ uframe = NoFrame
    /\ mpc = "ready"
    /\ thread = "none"
    /\ last_call = "none"
    /\ now = 1
    /\ captured = 0
    /\ stored = 0
    /\ starts = 0
    /\ reads = <<>>
    /\ InitHeap
    /\ error = "none"
    /\ old = NoThread

\* No configuration conversation has been entered.
InitConv ==
    /\ conv = "none"
    /\ user_data = NoUserData
    /\ update = NoUpdate
    /\ sent = "none"
    /\ asked = NoAsk

\* The updater has not started: no configuration value, no command.
InitChat ==
    /\ bot_data = NoData
    /\ chat = NoChat
    /\ InitConv

InitSurv ==
    /\ exit_status = None
    /\ surveillance_mode = FALSE
    /\ last_switch = "none"
    /\ stream = [h \in Handlers |-> FreshStream]
    /\ dpc = "ready"
    /\ gv = NoVideo

\* Before Camera() is constructed.
InitCam ==
    /\ writers \in [Codecs -> BOOLEAN]
    /\ ctor = "new"
    /\ probes = <<>>
    /\ codec = "none"
    /\ frame = NoFrame
    /\ InitDevice
    /\ InitSurv
    /\ InitChat

NextCam ==
    \/ BotInitNoConfig
    \/ Construct
    \/ BotInitExit
    \/ CamStart
    \/ CamStopSignal
    \/ CamStopJoin
    \/ UpdGrab
    \/ UpdAcquire
    \/ UpdSetFrame
    \/ UpdSetCount
    \/ GetPhoto

SpecCam == InitCam /\ [][NextCam]_vars

\* The camera constructed (Camera() returned), nothing started.
Init ==
    /\ writers = [c \in Codecs |-> TRUE]
    /\ ctor = "ok"
    /\ probes = <<"avc1">>
    /\ codec = "avc1"
    /\ frame \in {Frame(0, s) : s \in Scenes}
    /\ InitDevice
    /\ InitSurv
    /\ InitChat

\* One surveillance stream, /surveillance_stop and /get_video.  The stream
\* and get_video share nothing but the camera they read, so the commands
\* are taken one at a time: /get_video while no stream exists, and
\* /surveillance_start while no get_video is under way.
Next ==
    \/ ~running /\ CamStart
    \/ UpdIteration(Scenes, MaxFrames)
    \/ Tick
    \/ dpc = "ready" /\ SurvStartCmd("h1", VideoSeconds, PictureSeconds)
    \/ StreamBegin("h1")
    \/ MDPoll("h1")
    \/ MDRead("h1")
    \/ SurvStopCmd
    \/ stream["h1"].pc = "ready" /\ GvStart(VideoSeconds)
    \/ GvLoop
    \/ GvUpload

Spec == Init /\ [][Next]_vars

\* Two handler threads of the pool serving /surveillance_start, and
\* /surveillance_stop, over a short run of the camera.
RaceFrames == 3
RaceScenes == {0, 2}

NextRace ==
    \/ ~running /\ CamStart
    \/ UpdIteration(RaceScenes, RaceFrames)
    \/ \E h \in Handlers : SurvStartCmd(h, {1}, {1})
    \/ \E h \in Handlers : StreamBegin(h)
    \/ \E h \in Handlers : MDPoll(h)
    \/ \E h \in Handlers : MDRead(h)
    \/ SurvStopCmd

SpecRace == Init /\ [][NextRace]_vars

\* The bot polling with the camera constructed and what the persistence
\* held: commands from the authorized user and from others, and the
\* streams the commands start.
InitBot ==
    /\ writers = [c \in Codecs |-> TRUE]
    /\ ctor = "ok"
    /\ probes = <<"avc1">>
    /\ codec = "avc1"
    /\ frame = Frame(0, 0)
    /\ InitDevice
    /\ InitSurv
    /\ bot_data \in StoredConfigs
    /\ chat = NoChat
    /\ InitConv

NextBot ==
    \/ \E user \in Users, cmd \in Commands : wrapped(user, cmd)
    \/ \E h \in Handlers : StreamBegin(h)
    \/ \E h \in Handlers : MDPoll(h)
    \/ \E h \in Handlers : MDRead(h)

SpecBot == InitBot /\ [][NextBot]_vars

\* The camera constructed, and nothing stored by the persistence.
InitConfig ==
    /\ writers = [c \in Codecs |-> TRUE]
    /\ ctor = "ok"
    /\ probes = <<"avc1">>
    /\ codec = "avc1"
    /\ frame = Frame(0, 0)
    /\ InitDevice
    /\ InitSurv
    /\ InitChat

\* The configuration conversation of the authorized user, and /config
\* from others.
NextConfig ==
    \/ \E user \in Users : ConfigCmd(user)
    \/ StopConfigCmd
    \/ \E data \in Buttons : CallbackQuery(data)
    \/ \E text \in Texts : TextMessage(text)

SpecConfig == InitConfig /\ [][NextConfig]_vars

\* The capture loop and two consumers of read(), with the image buffers
\* they share or not: get_photo with or without timestamp, and a
\* motion-detection loop with timestamp.
NextFrames ==
    \/ ~running /\ CamStart
    \/ UpdBuffers(RaceScenes, RaceFrames)
    \/ \E timestamp \in BOOLEAN : ReadFrame("get_photo", timestamp)
    \/ ReadFrame("motion_detection", TRUE)
    \/ DrawContours

SpecFrames == InitConfig /\ [][NextFrames]_vars

\* The frame source driven by two threads: one calls start() and stop(),
\* the other may call start() while the first is inside stop().
NextCallers ==
    \/ CamStart
    \/ CamStopSignal
    \/ CamStopJoin
    \/ CamStopJoinOld
    \/ CamStartOther
    \/ UpdGrab
    \/ UpdAcquire
    \/ UpdSetFrame
    \/ UpdSetCount
    \/ OldGrab
    \/ OldAcquire
    \/ OldSetFrame
    \/ OldSetCount

SpecCallers == InitConfig /\ [][NextCallers]_vars

\* One surveillance stream started with contour drawing enabled or not,
\* over every sequence of scenes.
NextDetect ==
    \/ ~running /\ CamStart
    \/ UpdIteration(Scenes, MaxFrames)
    \/ /\ SurvStartCallback("h1", {TRUE}, {1}, {1}, BOOLEAN)
       /\ UNCHANGED botVars
    \/ StreamBegin("h1")
    \/ MDPoll("h1")
    \/ MDRead("h1")
    \/ SurvStopCmd

SpecDetect == Init /\ [][NextDetect]_vars

\* /get_video over a running camera.  The loop of get_video is a busy loop
\* on the dispatcher thread and the capture thread is never blocked for
\* long, so both keep taking steps; the device delivers MaxFrames frames.
NextVideo ==
    \/ ~running /\ CamStart
    \/ UpdIteration(Scenes, MaxFrames)
    \/ Tick
    \/ GvStart(VideoSeconds)
    \/ GvLoop
    \/ GvUpload

SpecVideo ==
    /\ Init
    /\ [][NextVideo]_vars
    /\ WF_vars(GvLoop)
    /\ WF_vars(UpdIteration(Scenes, MaxFrames))

\* The configuration values the conversation is given while a stream may
\* be running: two of the buttons of each menu, and two texts.
LiveButtons ==
    {"GENERAL_CONFIG", "SURVEILLANCE_CONFIG", "CHANGE_TIMESTAMP",
     "CHANGE_SRV_VIDEO_DURATION", "CHANGE_SRV_PICTURE_INTERVAL",
     "CHANGE_SRV_MOTION_CONTOURS", "DISABLE"}

LiveTexts == {<<"1">>}

\* One surveillance stream of the authorized user, and the configuration
\* conversation going on beside it.
NextLive ==
    \/ ~running /\ CamStart
    \/ UpdIteration(RaceScenes, RaceFrames)
    \/ /\ stream["h1"].pc = "ready"
       /\ wrapped(authorized_user, "surveillance_start")
    \/ StreamBegin("h1")
    \/ MDPoll("h1")
    \/ MDRead("h1")
    \/ wrapped(authorized_user, "surveillance_stop")
    \/ ConfigCmd(authorized_user)
    \/ \E data \in LiveButtons : CallbackQuery(data)
    \/ \E text \in LiveTexts : TextMessage(text)

SpecLive == InitConfig /\ [][NextLive]_vars

\* The capture loop over a device whose reads may fail, and get_photo.
NextGlitch ==
    \/ ~running /\ CamStart
    \/ UpdIteration(RaceScenes, MaxFrames)
    \/ UpdNoFrame(MaxFrames)
    \/ GetPhoto

SpecGlitch == InitConfig /\ [][NextGlitch]_vars

----------------------------------------------------------------------------
(* Properties *)

Last(seq) == seq[Len(seq)]

NoRepeat(seq) == \A i, j \in 1..Len(seq) : i # j => seq[i] # seq[j]

Range(seq) == {seq[i] : i \in 1..Len(seq)}

\* the least integer >= a fraction x >= 0
Ceil(x) == (x.num + x.den - 1) \div x.den

\* C1: the events a stream has yielded form cycles of one {detected}, then
\* {photo}s, then one {video}: a {detected} comes first or right after a
\* {video}, and a {photo} or {video} comes right after a {detected} or a
\* {photo}.
InCycles(evs) ==
    \A i \in 1..Len(evs) :
        IF evs[i].type = "detected"
        THEN i = 1 \/ evs[i - 1].type = "video"
        ELSE i > 1 /\ evs[i - 1].type \in {"detected", "photo"}

C1_EventCycles == \A h \in Handlers : InCycles(stream[h].events)

\* A stream that has gone through a whole cycle, photo included, and has
\* opened the next one.
C1_Witness ==
    \E h \in Handlers :
        LET evs == stream[h].events
        IN  /\ Len(evs) >= 4
            /\ \E i \in 1..Len(evs) : evs[i].type = "photo"
            /\ \E i \in 2..Len(evs) :
                  evs[i].type = "detected" /\ evs[i - 1].type = "video"

\* C2: once {detected} has been yielded, the {video} of that session is
\* eventually yielded unless surveillance is stopped.  Stated as what a
\* finite run refutes: a stream whose last event is not a {video} (it has
\* a session open) has its loop still running, since a stream that has
\* ended cannot yield the video any more.
C2_SessionCompletes ==
    \A h \in Handlers :
        LET evs == stream[h].events
        IN  (evs # <<>> /\ Last(evs).type # "video") => LoopRunning(h)

\* C3: at most one motion-detection loop is running at any time.
C3_OneLoop == Cardinality({h \in Handlers : LoopRunning(h)}) <= 1

\* C4: a /surveillance_start handled while surveillance is active is
\* declined: the step replies 'already started' and changes nothing else,
\* neither the handler's own locals (no stream is created) nor the mode
\* flag nor any other stream.
C4_Declined ==
    [][\A h \in Handlers :
          (stream[h].pc = "ready" /\ surveillance_mode
             /\ stream'[h] # stream[h])
          => /\ stream' = [stream EXCEPT ![h].reply = "already started"]
             /\ UNCHANGED <<surveillance_mode, last_switch, camVars,
                            devVars, gvVars>>]_vars

\* A command has been declined while another handler's loop is running.
C4_Witness ==
    \E h, g \in Handlers :
        /\ stream[h].reply = "already started"
        /\ stream[h].pc = "ready"
        /\ LoopRunning(g)

\* C5: after surveillance_stop() has been called on a running stream, the
\* stream's next test of its loop condition ends it: it reads and
\* processes no further frame.
C5_StopEndsLoop ==
    [][\A h \in Handlers :
          (stream[h].stop_seen /\ stream[h].pc = "poll"
             /\ stream'[h] # stream[h])
          => stream'[h].pc = "ready"]_vars

\* C6 as claimed: is_surveillance_active is true exactly when a
\* motion-detection loop has started and not yet exited.
C6_ActiveIffLoopRunning ==
    surveillance_mode <=> \E h \in Handlers : LoopRunning(h)

\* C6 as amended: is_surveillance_active is true exactly when a
\* motion-detection loop has started and surveillance_stop() has not been
\* called since the latest loop start, whatever has become of the loops
\* and whether or not a recording session is open.
C6_ActiveIffStartedLast ==
    surveillance_mode <=> last_switch = "loop start"

\* The flag is off while a stopped loop with an open recording session has
\* not exited yet.
C6_Witness ==
    /\ ~surveillance_mode
    /\ \E h \in Handlers :
          LoopRunning(h) /\ stream[h].status = "motion_detected"

\* C7: since start(), the ids returned by successive read() calls never
\* decrease, and each is the number of frames the capture loop had stored
\* when the read was made.
C7_ReadIds ==
    /\ \A i, j \in 1..Len(reads) :
          i <= j => reads[i].frame_id <= reads[j].frame_id
    /\ \A i \in 1..Len(reads) : reads[i].frame_id = reads[i].stored

\* Three reads: a new frame between the first two, none between the last
\* two.
C7_Witness ==
    /\ Len(reads) >= 3
    /\ reads[1].frame_id < reads[2].frame_id
    /\ reads[2].frame_id = reads[3].frame_id
    /\ running

\* C8: no frame id is recorded twice in a recording, by get_video or by a
\* surveillance session, and the frames written to the encoder are the
\* recorded ones, once each.
C8_NoDuplicates ==
    /\ NoRepeat(gv.processed)
    /\ gv.written = gv.processed
    /\ \A h \in Handlers :
          /\ NoRepeat(stream[h].processed)
          /\ stream[h].written = stream[h].processed
          /\ \A i \in 1..Len(stream[h].events) :
                NoRepeat(stream[h].events[i].frames)

\* get_video has returned a video of several frames after polling faster
\* than the capture loop (a read returned a frame it had already).
C8_Witness ==
    /\ gv.returned
    /\ gv.skipped
    /\ Len(gv.processed) >= 2

\* C9: a finalised recording holds at least ceil(n_frames) distinct
\* frames, n_frames = fps * seconds being the target of the recording:
\* get_video returns, and {video} is yielded, with no fewer.
C9_AtLeastTarget ==
    /\ gv.returned =>
          Cardinality(Range(gv.written)) >= Ceil(gv.n_frames)
    /\ \A h \in Handlers :
          \A i \in 1..Len(stream[h].events) :
             LET e == stream[h].events[i]
             IN  e.type = "video" =>
                    Cardinality(Range(e.frames)) >= Ceil(e.target)

\* get_video has returned for a target that is not a whole number of
\* frames.
C9_Witness ==
    /\ gv.returned
    /\ gv.n_frames.num % gv.n_frames.den # 0
    /\ Len(gv.written) = Ceil(gv.n_frames)

\* C10: the codecs are probed in the order avc1, mp4v, up to the first
\* whose test writer opens, which is selected; mp4v is probed only when
\* avc1 did not open; and construction fails with CodecNotAvailable
\* exactly when neither opens.
C10_CodecOrder ==
    ctor \in {"ok", "CodecNotAvailable"} =>
        /\ Len(probes) >= 1
        /\ \A i \in 1..Len(probes) : probes[i] = Candidates[i]
        /\ \A i \in 1..(Len(probes) - 1) : ~writers[probes[i]]
        /\ ctor = "ok" =>
              codec = Last(probes) /\ writers[codec]
        /\ ctor = "CodecNotAvailable" <=>
              \A c \in Codecs : ~writers[c]
        /\ ctor = "CodecNotAvailable" => Len(probes) = Len(Candidates)

\* The camera was constructed with the fallback codec.
C10_Witness ==
    /\ ctor = "ok"
    /\ codec = "mp4v"
    /\ probes = <<"avc1", "mp4v">>

\* C11: when the device does not report itself opened, construction fails
\* with CameraConnectionError before any frame is read and before any codec
\* is probed, and no capture loop is ever started on the device.
C11_ConnectionErrorFirst ==
    ctor = "CameraConnectionError" =>
        /\ frame = NoFrame
        /\ probes = <<>>
        /\ codec = "none"
        /\ ~running
        /\ thread = "none"
        /\ upc = "none"
        /\ captured = 0

\* Construction has failed on an unopened device although every codec
\* would have opened, and the process has exited.
C11_Witness ==
    /\ ctor = "CameraConnectionError"
    /\ \A c \in Codecs : writers[c]
    /\ exit_status # None

\* C12: the exit status for a device that cannot be reached differs from
\* the exit status for a missing codec.
C12_DistinctExitCodes ==
    exit_status # None =>
        /\ ctor = "CameraConnectionError" =>
              exit_status # ExitStatus("CodecNotAvailable")
        /\ ctor = "CodecNotAvailable" =>
              exit_status # ExitStatus("CameraConnectionError")

\* C12 as amended: a failed camera construction makes the process exit
\* with status 2 whichever the failure, device unreachable or no usable
\* codec; that status differs from the status 1 of a missing token or
\* username, and the process does not exit when construction succeeds.
C12_CameraExitStatus ==
    /\ ctor \in {"CameraConnectionError", "CodecNotAvailable"} =>
          exit_status \in {None, 2}
    /\ ctor = "not constructed" => exit_status = 1
    /\ ctor \in {"new", "ok"} => exit_status = None

\* The process has exited for want of a codec.
C12_Witness ==
    /\ ctor = "CodecNotAvailable"
    /\ exit_status = 2

\* C13: start() called while the capture loop is running changes neither
\* the frame counter nor the start time and launches no second loop.
C13_StartWhileRunning ==
    [][(running /\ last_call # "start while running"
                /\ last_call' = "start while running")
       => UNCHANGED <<frame_count, start_time, running, starts, thread, upc,
                      frame, captured, stored>>]_vars

\* start() has been called while the loop was running and had stored
\* frames.
C13_Witness ==
    /\ last_call = "start while running"
    /\ running
    /\ frame_count >= 1

\* C14: stop() never calls join() on a capture thread that has been joined
\* already.
C14_NoSecondJoin == thread # "rejoined"

\* stop() has returned since the latest start() (or before any start()).
Stopped ==
    /\ last_call = "stop"
    /\ mpc = "ready" \/ thread \in {"joined", "rejoined"}

\* C15: once stop() has returned the capture loop has exited, and until a
\* later start() no step reads the device or changes the cached frame or
\* the frame counter.
C15_StoppedStaysStopped ==
    [][(Stopped /\ last_call' = "stop")
       => /\ upc \in {"none", "done"}
          /\ UNCHANGED <<frame, frame_count, captured, stored, uframe>>]_vars

\* stop() has returned after a capture loop that had stored frames.
C15_Witness ==
    /\ Stopped
    /\ mpc = "ready"
    /\ thread = "joined"
    /\ starts = 2
    /\ stored >= 1

\* C16: of the first three frames a motion-detection loop processes, the
\* first (the baseline) yields nothing; the second, when identical to the
\* first, yields detected=false; and the third, when the first two are
\* identical and it differs from them by a block of contour area at least
\* 2000, yields detected=true.
C16_Example ==
    \A h \in Handlers :
        LET l == stream[h].seen
        IN  /\ Len(l) >= 1 => l[1].out = "nothing"
            /\ (Len(l) >= 2 /\ l[2].scene = l[1].scene)
                  => l[2].out = "detected=false"
            /\ (/\ Len(l) >= 3
                /\ l[2].scene = l[1].scene
                /\ l[3].scene # l[2].scene
                /\ BlockArea(l[2].scene) >= 2000
                      \/ BlockArea(l[3].scene) >= 2000)
                  => l[3].out = "detected=true"

\* A loop has processed two identical frames of the empty background and
\* then a frame with a block of area exactly 2000.
C16_Witness ==
    \E h \in Handlers :
        LET l == stream[h].seen
        IN  /\ Len(l) = 3
            /\ l[1].scene = 0
            /\ l[2].scene = 0
            /\ l[3].scene = 2
            /\ l[3].out = "detected=true"

\* The events handler h yields in a step.
NewEvents(h) ==
    SubSeq(stream'[h].events, Len(stream[h].events) + 1,
           Len(stream'[h].events))

\* In a step, the loop of handler h processes a frame and yields a motion
\* event for it.
Handles(h) ==
    /\ stream[h].pc = "read"
    /\ stream[h].previous_frame # None
    /\ stream'[h].last_frame_id # stream[h].last_frame_id

\* The motion event of the step is handled in STATE_MOTION_DETECTED: the
\* session was open, or the event opens it.
InMotionDetected(h) ==
    \/ stream[h].status = "motion_detected"
    \/ \E i \in DOMAIN NewEvents(h) : NewEvents(h)[i].type = "detected"

\* len(processed) when the photo check is evaluated
RecordedCount(h) ==
    IF stream[h].status = "motion_detected"
    THEN Len(stream[h].processed)
    ELSE 1

\* The photo part of C17, with `total` left to the two versions below: a
\* {photo} is yielded exactly on the events handled in MotionDetected for
\* which recordedCount is a multiple of k = floor(fps * picture_seconds),
\* and its id is recordedCount / k.
PhotoRule(h, TotalOk(_, _)) ==
    LET new == NewEvents(h)
        photos == {i \in DOMAIN new : new[i].type = "photo"}
        count == RecordedCount(h)
        k == Floor(Times(stream[h].fps, stream[h].picture_seconds))
    IN  Handles(h) =>
          /\ photos # {} <=>
                (InMotionDetected(h) /\ \E n \in 0..count : count = n * k)
          /\ \A i \in photos :
                /\ new[i].id * k = count
                /\ TotalOk(new[i].total, stream[h])

\* total = video_seconds / picture_seconds, exactly
TotalExact(total, s) == total * s.picture_seconds = s.video_seconds

\* total = video_seconds // picture_seconds: the largest whole number of
\* picture intervals that fit in video_seconds
TotalFloor(total, s) ==
    /\ total * s.picture_seconds <= s.video_seconds
    /\ (total + 1) * s.picture_seconds > s.video_seconds

\* C17 as claimed: a {photo} is yielded exactly when recordedCount is a
\* multiple of floor(fps * picture_seconds) on an event handled in
\* MotionDetected, with id = recordedCount / floor(fps * picture_seconds)
\* and total = video_seconds / picture_seconds.
C17_PhotoExactTotal ==
    [][\A h \in Handlers : PhotoRule(h, TotalExact)]_vars

\* C17 as amended: the same, with total the floor division
\* video_seconds // picture_seconds.
C17_PhotoFloorTotal ==
    [][\A h \in Handlers : PhotoRule(h, TotalFloor)]_vars

\* With a video of two clock units and a picture interval of one (1 s and
\* 0.5 s), the first photo of a stream has id 1 and total 2.
C17_Witness ==
    \E h \in Handlers :
        /\ stream[h].video_seconds = 2
        /\ stream[h].picture_seconds = 1
        /\ Len(stream[h].events) >= 2
        /\ stream[h].events[2] = Event("photo", 1, 2, <<>>, Whole(0))

\* A step in which the wrapper handles a command.
CommandStep == chat' # chat

\* C18: /surveillance_stop from the authorized user while surveillance is
\* not active is answered 'not started' with a warning, and the handler
\* changes nothing: Camera.surveillance_stop() is not called and no state
\* of camera, streams or recordings changes (the wrapper has ensured the
\* configuration defaults, as for every command).
C18_StopDeclined ==
    [][(/\ CommandStep
        /\ chat'.user = authorized_user
        /\ chat'.command = "surveillance_stop"
        /\ ~surveillance_mode)
       => /\ chat'.reply = "Error! Surveillance is not started"
          /\ chat'.log = "warning"
          /\ bot_data' = ensure_defaults(bot_data)
          /\ UNCHANGED <<survVars, camVars, devVars, gvVars, reads,
                         now>>]_vars

\* /surveillance_stop has been declined after an earlier stream had been
\* stopped.
C18_Witness ==
    /\ chat.user = authorized_user
    /\ chat.command = "surveillance_stop"
    /\ chat.reply = "Error! Surveillance is not started"
    /\ last_switch = "stop"
    /\ ~surveillance_mode

\* C19: a command from anyone but the authorized user is answered
\* 'Unauthorized' with a warning logged and reaches no callback: nothing of
\* the camera, the streams or the recordings changes and no configuration
\* value is created or changed.
C19_Unauthorized ==
    [][(CommandStep /\ chat'.user # authorized_user)
       => /\ chat'.reply = "Unauthorized"
          /\ chat'.log = "warning"
          /\ UNCHANGED <<bot_data, survVars, camVars, devVars, gvVars,
                         reads, now>>]_vars

\* Someone else's /surveillance_stop has been turned down while
\* surveillance was active.
C19_Witness ==
    /\ chat.user = "stranger"
    /\ chat.command = "surveillance_stop"
    /\ chat.reply = "Unauthorized"
    /\ surveillance_mode
    /\ \E h \in Handlers : LoopRunning(h)

\* The defaults as the claim lists them.
ClaimedDefaults ==
    [timestamp |-> TRUE, od_video_duration |-> 5, srv_video_duration |-> 30,
     srv_picture_interval |-> 5, srv_motion_contours |-> TRUE]

\* C20: ensure_defaults, applied by the wrapper for the authorized user,
\* creates exactly the missing ones of the five keys, each with its
\* default, leaves every value already present as it was, and applied to
\* its own result changes nothing.
C20_EnsureDefaults ==
    [][(CommandStep /\ chat'.user = authorized_user)
       => /\ DOMAIN bot_data' = DOMAIN bot_data \cup Keys
          /\ \A k \in DOMAIN bot_data : bot_data'[k] = bot_data[k]
          /\ \A k \in Keys \ DOMAIN bot_data :
                bot_data'[k] = ClaimedDefaults[k]
          /\ ensure_defaults(bot_data') = bot_data']_vars

\* The defaults have been ensured over stored values that are not the
\* defaults.
C20_Witness ==
    /\ chat.user = authorized_user
    /\ DOMAIN bot_data = Keys
    /\ bot_data["od_video_duration"] = 7
    /\ bot_data["srv_motion_contours"] = FALSE
    /\ bot_data["srv_video_duration"] = 30

----------------------------------------------------------------------------
\* A text parses as an integer between 1 and 99 inclusive.
ParsesInRange(text) == int(text).ok /\ int(text).value \in 1..99

\* A text message arrives while an integer is awaited.
IntegerInputStep == conv = "INTEGER_INPUT" /\ update'.kind = "message"

----------------------------------------------------------------------------
\* The configuration variable each button of the two menus selects.
SelectedVariable ==
    [CHANGE_TIMESTAMP |-> "timestamp",
     CHANGE_OD_VIDEO_DURATION |-> "od_video_duration",
     CHANGE_SRV_VIDEO_DURATION |-> "srv_video_duration",
     CHANGE_SRV_PICTURE_INTERVAL |-> "srv_picture_interval",
     CHANGE_SRV_MOTION_CONTOURS |-> "srv_motion_contours"]

\* The value an input stands for.
InputValue(u) ==
    IF u.kind = "query" THEN u.data = "ENABLE" ELSE int(u.data).value

\* A boolean input, or an integer input that is accepted.
AcceptedInputStep ==
    \/ /\ conv = "BOOLEAN_INPUT"
       /\ update'.kind = "query"
       /\ update'.data \in {"ENABLE", "DISABLE"}
    \/ /\ IntegerInputStep
       /\ conv' # "INTEGER_INPUT"

(* C24: after an accepted boolean or integer input the value is stored     *)
(* under the configuration variable selected in the preceding menu step,   *)
(* and the conversation returns to the menu in which that step was taken   *)
(* (general configuration or surveillance configuration).                  *)
C24_StoredAndReturned ==
    [][AcceptedInputStep
       => /\ bot_data' = Store(bot_data, SelectedVariable[asked.data],
                               InputValue(update'))
          /\ asked.menu \in {"GENERAL_CONFIG", "SURVEILLANCE_CONFIG"}
          /\ conv' = asked.menu]_vars

\* Motion contours have just been disabled from the surveillance menu,
\* after the on-demand video duration was set to 42 from the general one.
C24_Witness ==
    /\ conv = "SURVEILLANCE_CONFIG"
    /\ update.kind = "query"
    /\ update.data = "DISABLE"
    /\ asked = [menu |-> "SURVEILLANCE_CONFIG",
                data |-> "CHANGE_SRV_MOTION_CONTOURS"]
    /\ bot_data["srv_motion_contours"] = FALSE
    /\ bot_data["od_video_duration"] = 42

----------------------------------------------------------------------------
\* The chat actions claimed for one event.
ClaimedActions(type) ==
    CASE type = "detected" -> <<"record_video">>
      [] type = "photo" -> <<"upload_photo", "record_video">>
      [] type = "video" -> <<"upload_video">>

\* The chat actions claimed for a sequence of events, in event order.
RECURSIVE ActionsFor(_)
ActionsFor(evs) ==
    IF evs = <<>>
    THEN <<>>
    ELSE ClaimedActions(Head(evs).type) \o ActionsFor(Tail(evs))

(* C22: the chat actions a handler has sent while delivering a stream are  *)
(* those of its events, in event order: record_video for each {detected},  *)
(* upload_photo immediately followed by record_video for each {photo} and  *)
(* upload_video for each {video}; and every upload_video comes after a     *)
(* record_video that no other upload_video separates from it, the          *)
(* record_video of its own session.                                        *)
C22_ChatActions ==
    \A h \in Handlers :
        LET a == stream[h].actions
        IN  /\ a = ActionsFor(stream[h].events)
            /\ \A i \in DOMAIN a :
                  a[i] = "upload_video" =>
                     \E j \in 1..(i - 1) :
                        /\ a[j] = "record_video"
                        /\ \A k \in (j + 1)..(i - 1) : a[k] # "upload_video"

\* A handler that has sent a photo and the video of one session and has
\* announced the recording of the next.
C22_Witness ==
    \E h \in Handlers :
        LET a == stream[h].actions
        IN  \E i, j, k \in DOMAIN a :
               /\ i < j /\ j < k
               /\ a[i] = "upload_photo"
               /\ a[j] = "upload_video"
               /\ a[k] = "record_video"

----------------------------------------------------------------------------
\* The marks the consumer of a returned frame has asked for or may draw.
OwnMarks(r) ==
    (IF r.timestamp THEN {"timestamp"} ELSE {})
        \cup (IF r.by = "motion_detection" THEN {"contours"} ELSE {})

\* The buffers that hold what the device delivered.
DeviceBuffers == {b \in DOMAIN heap : heap[b].origin = "device"}

(* C23: read(), and get_photo through it, hand out a private copy of the   *)
(* cached frame.  The timestamp and the contours drawn on a returned frame *)
(* never show on the cached frame (or any frame the device delivered) nor  *)
(* on a frame returned by another read(): each returned frame is a buffer  *)
(* of its own that carries no mark but those of its own consumer.  With    *)
(* timestamp disabled, the image returned is exactly a frame captured from *)
(* the device.                                                             *)
C23_PrivateCopy ==
    /\ \A b \in DeviceBuffers : heap[b].marks = {}
    /\ cached \in DeviceBuffers
    /\ \A i \in DOMAIN returned :
          LET r == returned[i]
          IN  /\ r.ref \notin DeviceBuffers
              /\ \A j \in DOMAIN returned : j # i => returned[j].ref # r.ref
              /\ heap[r.ref].marks \subseteq OwnMarks(r)
              /\ ~r.timestamp =>
                    /\ r.image.marks = {}
                    /\ \E b \in DeviceBuffers :
                          /\ heap[b].n = r.image.n
                          /\ heap[b].scene = r.image.scene

\* get_photo without timestamp and the motion-detection loop with it have
\* read the same cached frame, and the loop has drawn contours on its own.
C23_Witness ==
    \E i, j \in DOMAIN returned :
        /\ returned[i].by = "get_photo"
        /\ ~returned[i].timestamp
        /\ returned[j].by = "motion_detection"
        /\ returned[j].timestamp
        /\ returned[i].frame_id = returned[j].frame_id
        /\ returned[i].frame_id = 2
        /\ heap[returned[j].ref].marks = {"timestamp", "contours"}
        /\ heap[cached].n = returned[i].image.n

----------------------------------------------------------------------------
\* In a step, the loop of handler h makes one read.
Reads(h) == stream[h].pc = "read" /\ stream'[h].pc # "read"

\* The step leaves the motion event last yielded and the events of the
\* orchestrator as they were: nothing is yielded.
YieldsNothing(h) ==
    /\ stream'[h].ev = stream[h].ev
    /\ stream'[h].events = stream[h].events

(* C25: in each motion-detection stream the first distinct frame processed *)
(* only establishes the baseline and yields no event; every later distinct *)
(* frame read yields one event (detected, frameId, frame), in which        *)
(* detected compares the frame with the immediately preceding processed    *)
(* frame, and then becomes the preceding frame itself.  A frame is         *)
(* distinct when its frameId is not the last one the loop has seen.        *)
C25_BaselineThenEvents ==
    [][\A h \in Handlers :
         Reads(h) =>
            LET s == stream[h]
                distinct == read.frame_id # s.last_frame_id
                first == s.seen = <<>>
            IN  /\ (distinct /\ first) =>
                      /\ YieldsNothing(h)
                      /\ stream'[h].previous_frame = read.frame.scene
                /\ (distinct /\ ~first) =>
                      /\ stream'[h].ev =
                            [detected |-> Detected(s.previous_frame,
                                                   read.frame.scene),
                             frame_id |-> read.frame_id]
                      /\ Len(s.seen) < 3 =>
                            s.previous_frame = Last(s.seen).scene
                      /\ stream'[h].reply # "ZeroDivisionError" =>
                            stream'[h].previous_frame = read.frame.scene]_vars

\* The loop has processed three frames: the baseline, which yielded
\* nothing, and two frames that yielded an event each, the second one
\* showing motion against the first.
C25_Witness ==
    \E h \in Handlers :
        /\ Len(stream[h].seen) = 3
        /\ stream[h].seen[1].out = "nothing"
        /\ stream[h].seen[2].out = "detected=false"
        /\ stream[h].seen[2].scene = 2
        /\ stream[h].seen[3].out = "detected=true"
        /\ stream[h].seen[3].scene = 0

----------------------------------------------------------------------------
(* C26: the frameIds of the events one motion-detection loop yields are    *)
(* strictly increasing: a read that returns the frameId of the last frame  *)
(* processed is skipped and yields nothing, and an event that is yielded   *)
(* has a frameId greater than the one yielded before and than any frameId  *)
(* the loop has processed, so that the orchestrator never receives the     *)
(* same physical frame twice.                                              *)
C26_IncreasingIds ==
    [][\A h \in Handlers :
         Reads(h) =>
            /\ read.frame_id = stream[h].last_frame_id =>
                  /\ YieldsNothing(h)
                  /\ stream'[h].seen = stream[h].seen
                  /\ stream'[h].processed = stream[h].processed
            /\ stream'[h].ev # stream[h].ev =>
                  /\ stream'[h].ev.frame_id > stream[h].ev.frame_id
                  /\ stream'[h].ev.frame_id > stream[h].last_frame_id
                  /\ ~InSeq(stream'[h].ev.frame_id, stream[h].processed)]_vars

\* A loop that has yielded events for two frames, the last of them frame
\* 3, and is about to read frame 3 again.
C26_Witness ==
    \E h \in Handlers :
        /\ stream[h].pc = "read"
        /\ Len(stream[h].seen) = 3
        /\ stream[h].ev.frame_id = 3
        /\ stream[h].last_frame_id = 3
        /\ read.frame_id = 3

----------------------------------------------------------------------------
\* What the orchestrator keeps between events: its state, the session and
\* what it has emitted.
Orchestrator(s) ==
    <<s.status, s.n_frames, s.processed, s.written, s.released, s.events,
      s.actions>>

(* C27: on an event with detected=true received in Idle the orchestrator   *)
(* emits {detected} first, opens a session with target = fps *             *)
(* video_seconds, records the frame of the event as the first frame of     *)
(* the session (recordedCount = 1) and moves to MotionDetected, the state  *)
(* in which the rest of the event is handled: the event leaves it in       *)
(* MotionDetected unless it is the one that completes the session and      *)
(* emits {video}.  An event with detected=false received in Idle emits     *)
(* nothing and changes no state.                                           *)
C27_IdleTransitions ==
    [][\A h \in Handlers :
         (Handles(h) /\ stream[h].status = "idle") =>
            LET s == stream[h]
                t == stream'[h]
                new == NewEvents(h)
            IN  IF t.ev.detected
                THEN /\ new # <<>>
                     /\ new[1].type = "detected"
                     /\ \A i \in 2..Len(new) : new[i].type # "detected"
                     /\ t.n_frames = Times(s.fps, s.video_seconds)
                     /\ t.processed = <<t.ev.frame_id>>
                     /\ t.written = <<t.ev.frame_id>>
                     /\ Len(t.processed) = 1
                     /\ \/ t.status = "motion_detected"
                        \/ Last(new).type = "video"
                ELSE /\ new = <<>>
                     /\ Orchestrator(t) = Orchestrator(s)]_vars

\* A session opened by frame 2 with a target of two frames, while an event
\* without motion had been received in Idle before.
C27_Witness ==
    \E h \in Handlers :
        /\ stream[h].status = "motion_detected"
        /\ stream[h].processed = <<3>>
        /\ stream[h].n_frames = Whole(2)
        /\ stream[h].events = <<Event("detected", 0, 0, <<>>, Whole(0))>>
        /\ Len(stream[h].seen) = 3
        /\ stream[h].seen[2].out = "detected=false"
        /\ stream[h].seen[3].out = "detected=true"

----------------------------------------------------------------------------
(* C28: a single motion-detector event handled in MotionDetected causes at *)
(* most one {photo} emission and at most one frame append, and when both   *)
(* happen the photo emission comes before the append: the photo is the one *)
(* of the count of frames recorded before this event's frame was added.    *)
C28_PhotoThenAppend ==
    [][\A h \in Handlers :
         (Handles(h) /\ InMotionDetected(h)) =>
            LET new == NewEvents(h)
                photos == {i \in DOMAIN new : new[i].type = "photo"}
                appended == Len(stream'[h].processed) - RecordedCount(h)
                k == Floor(Times(stream[h].fps, stream[h].picture_seconds))
            IN  /\ Cardinality(photos) <= 1
                /\ appended \in {0, 1}
                /\ Len(stream'[h].written) = Len(stream'[h].processed)
                /\ (photos # {} /\ appended = 1) =>
                      /\ Last(stream'[h].processed) = stream'[h].ev.frame_id
                      /\ \A i \in photos :
                            new[i].id * k = Len(stream'[h].processed) - 1]_vars

\* An event handled in MotionDetected has caused both: a photo was emitted
\* for the one frame recorded before it (photo 1, one frame per picture
\* interval), and its frame 3 was appended as the second.
C28_Witness ==
    \E h \in Handlers :
        /\ stream[h].status = "motion_detected"
        /\ stream[h].processed = <<2, 3>>
        /\ stream[h].ev.frame_id = 3
        /\ Len(stream[h].events) = 3
        /\ Last(stream[h].events).type = "photo"
        /\ Last(stream[h].events).id = 1

----------------------------------------------------------------------------
\* How many events of a type there are in a sequence of events.
CountOf(type, evs) == Cardinality({i \in DOMAIN evs : evs[i].type = type})

\* In a step, the loop of handler h finds that surveillance_stop() has
\* cleared the flag.
StopTakesEffect(h) ==
    /\ stream[h].pc = "poll"
    /\ ~surveillance_mode
    /\ stream'[h].pc # "poll"

(* C29: if surveillance_stop() takes effect while a recording session is   *)
(* open (state MotionDetected), the stream terminates without emitting a   *)
(* {video} event for that session and without finalising its encoder: the  *)
(* loop exits in MotionDetected with the events it had yielded before, the *)
(* last of them not a {video}, and with one release of the writer for each *)
(* {video} yielded, one fewer than the sessions opened.                    *)
C29_SessionAbandoned ==
    [][\A h \in Handlers :
         (StopTakesEffect(h) /\ stream[h].status = "motion_detected") =>
            LET s == stream[h]
                t == stream'[h]
            IN  /\ t.pc = "ready"
                /\ t.reply = "stopped"
                /\ t.ended.status = "motion_detected"
                /\ t.ended.events = s.events
                /\ Last(t.ended.events).type # "video"
                /\ t.ended.released = CountOf("video", t.ended.events)
                /\ t.ended.released = CountOf("detected", t.ended.events) - 1
                /\ t.events = <<>>]_vars

\* A stream stopped in a session that had recorded frames and sent
\* photos: it is left with its {detected} and {photo}s, and no {video}.
C29_Witness ==
    \E h \in Handlers :
        /\ stream[h].pc = "ready"
        /\ stream[h].reply = "stopped"
        /\ stream[h].ended.status = "motion_detected"
        /\ stream[h].ended.released = 0
        /\ CountOf("detected", stream[h].ended.events) = 1
        /\ CountOf("photo", stream[h].ended.events) = 2
        /\ CountOf("video", stream[h].ended.events) = 0

----------------------------------------------------------------------------
(* C30: the capture loop never holds the frame lock while it is in the     *)
(* device read: the lock is held by the loop only between its acquisition  *)
(* and the end of the swap of cached frame and counter, and read() holds   *)
(* it only for its copy, so that while the loop is in the device read the  *)
(* lock is free and a read() does not wait.                                *)
C30_LockOnlyForSwap ==
    /\ upc \in {"grab", "lock"} => lock = "free"
    /\ lock = "update" <=> upc \in {"set_frame", "set_count"}
    /\ lock \in {"free", "update"}
    /\ (upc = "grab" /\ ctor = "ok" /\ dpc = "ready"
           /\ Len(reads) < MaxReads) => ENABLED GetPhoto

\* get_photo has read the second frame stored while the capture loop was
\* in the device read for the third.
C30_Witness ==
    /\ running
    /\ upc = "grab"
    /\ stored = 2
    /\ captured = 2
    /\ reads # <<>>
    /\ Last(reads).stored = 2
    /\ Last(reads).frame_id = 2

----------------------------------------------------------------------------
(* C31: every read() returns a frame and an id that one capture iteration  *)
(* stored together: for n >= 1 the frame returned with id n is the n-th    *)
(* frame captured since start(), never the frame of one iteration with the *)
(* counter of another.                                                     *)
C31_PairedRead ==
    \A i \in DOMAIN reads :
        reads[i].frame_id >= 1 => reads[i].n = reads[i].frame_id

\* In the second run of the camera get_photo has read frame 1 and then
\* frame 3, the last one while the capture loop was waiting for the lock
\* with frame 4 in hand.
C31_Witness ==
    /\ starts = 2
    /\ Len(reads) = 2
    /\ reads[1].frame_id = 1
    /\ reads[2].frame_id = 3
    /\ reads[2].n = 3
    /\ upc = "lock"
    /\ uframe.n = 4

----------------------------------------------------------------------------
(* C32: a failed device read keeps the previous cached frame.  The cached  *)
(* frame is at all times the last frame successfully captured (never the   *)
(* None of a failed read), the capture loop keeps running, and no read()   *)
(* raises: a read() that follows a failed device read returns a frame.     *)
C32_KeepsPreviousFrame ==
    ctor = "ok" =>
        /\ frame # NoFrame
        /\ error = "none"
        /\ running => upc = "grab"

----------------------------------------------------------------------------
\* A capture thread has passed the test of its loop and has a frame to
\* store, or is storing it.
Writing(pc) == pc \in {"lock", "set_frame", "set_count"}

(* C34: whatever the interleaving of start() and stop() calls, a start()   *)
(* issued by another thread while stop() is joining included, at most one  *)
(* capture loop writes the cached frame and the counter at any time.       *)
C34_OneWriter == ~(Writing(upc) /\ Writing(old.pc))

----------------------------------------------------------------------------
\* The areas of the contours of the closed, thresholded difference between
\* the frame the loop of handler h reads in a step and the frame it
\* processed before.
ContourAreas(h) ==
    get_motion_contours(stream[h].previous_frame, read.frame.scene)

(* C33: a motion event has detected=true if and only if at least one       *)
(* contour of the closed, thresholded difference between the current and   *)
(* the previous processed frame has area >= 2000, a contour of area        *)
(* exactly 2000 included; whether contour drawing is enabled makes no      *)
(* difference to detected, only to the rectangles drawn on the frame.      *)
C33_DetectedIffLargeContour ==
    [][\A h \in Handlers :
         Handles(h) =>
            /\ stream'[h].ev.detected <=>
                  \E a \in ContourAreas(h) : a >= 2000
            /\ stream'[h].pc = "poll" =>
                  ("contours" \in stream'[h].marks <=>
                      (stream[h].contours /\ stream'[h].ev.detected))]_vars

\* With contour drawing disabled, a stream has yielded detected=false for
\* a block of area 1999 and then detected=true for a block of area exactly
\* 2000 beside it, and nothing but the timestamp is drawn on that frame.
C33_Witness ==
    \E h \in Handlers :
        /\ ~stream[h].contours
        /\ Len(stream[h].seen) = 3
        /\ stream[h].seen[1].scene = 0
        /\ stream[h].seen[2].scene = 1
        /\ stream[h].seen[2].out = "detected=false"
        /\ stream[h].seen[3].scene = 2
        /\ stream[h].seen[3].out = "detected=true"
        /\ stream[h].ev.detected
        /\ stream[h].marks = {"timestamp"}

----------------------------------------------------------------------------
\* The surveillance parameters a stream holds, and those the configuration
\* holds.
Params(s) == <<s.timestamp, s.video_seconds, s.picture_seconds, s.contours>>

Configured(bd) ==
    <<bd["timestamp"], bd["srv_video_duration"], bd["srv_picture_interval"],
      bd["srv_motion_contours"]>>

\* Handler h has a stream: its command read the configuration and the
\* loop has not ended.
Started(h) == stream[h].pc \in {"begin", "poll", "read"}

(* C35: the surveillance parameters (timestamp, video duration, picture    *)
(* interval, draw-contours) are read once, when a stream is started: the   *)
(* stream gets the values the configuration holds then, keeps them until   *)
(* it ends whatever is configured meanwhile, and works with them (the      *)
(* session target, the photo interval, id and total, what is drawn on the  *)
(* frames), so that a change takes effect only for a stream started after  *)
(* it; and no step of the stream writes to the configuration.              *)
C35_ReadAtStart ==
    [][\A h \in Handlers :
         LET s == stream[h]
             t == stream'[h]
         IN  /\ (s.pc = "ready" /\ t.pc = "begin") =>
                   Params(t) = Configured(bot_data')
             /\ (Started(h) /\ t.pc # "ready") => Params(t) = Params(s)
             /\ (Started(h) /\ t.pc # s.pc) => bot_data' = bot_data
             /\ PhotoRule(h, TotalFloor)
             /\ (Handles(h) /\ t.pc = "poll") =>
                   /\ t.marks =
                        (IF s.timestamp THEN {"timestamp"} ELSE {})
                           \cup (IF s.contours /\ t.ev.detected
                                 THEN {"contours"} ELSE {})
                   /\ (s.status = "idle" /\ t.ev.detected) =>
                         t.n_frames = Times(s.fps, s.video_seconds)]_vars

\* A stream started after the picture interval was set to 1 has sent the
\* photo 1 of 30 with contours drawn, and goes on while the configuration
\* holds a video duration of 1 by now.
C35_Witness ==
    \E h \in Handlers :
        /\ LoopRunning(h)
        /\ Params(stream[h]) = <<TRUE, 30, 1, TRUE>>
        /\ bot_data["srv_video_duration"] = 1
        /\ bot_data["srv_picture_interval"] = 1
        /\ stream[h].marks = {"timestamp", "contours"}
        /\ Len(stream[h].events) >= 2
        /\ stream[h].events[2] = Event("photo", 1, 30, <<>>, Whole(0))

----------------------------------------------------------------------------
C37_PhotoIdWithinTotal ==
    \A h \in Handlers :
        \A i \in DOMAIN stream[h].events :
            LET e == stream[h].events[i]
            IN  e.type = "photo" => (1 <= e.id /\ e.id <= e.total)

\* C38: within one recording session the ids of the {photo} events are
\* strictly increasing and start at 1: the first photo after a {detected}
\* has id 1 and every later photo of the session has a larger id than the
\* photo before it, so no id is yielded twice, the opening event and the
\* event after it included.
C38_PhotoIdsIncrease ==
    \A h \in Handlers :
        LET evs == stream[h].events
        IN  \A i \in DOMAIN evs :
                (evs[i].type = "photo" /\ i > 1) =>
                    IF evs[i - 1].type = "photo"
                    THEN evs[i].id > evs[i - 1].id
                    ELSE evs[i].id = 1

\* C39: whenever the photo check is evaluated (a motion event is handled
\* in STATE_MOTION_DETECTED) its divisor floor(fps * picture_seconds) is
\* at least 1, and the check raises nothing.
C39_DivisorAtLeastOne ==
    [][\A h \in Handlers :
          (Handles(h) /\ InMotionDetected(h))
          => /\ PhotoEvery(stream[h]) >= 1
             /\ stream'[h].reply # "ZeroDivisionError"]_vars

\* C40: the 'Recording ...' message a handler sends on {detected} is
\* deleted exactly once: no message is deleted twice, a message is held
\* while the loop runs exactly as long as its session is open (it is
\* deleted when the {video} is delivered), and once the handler has ended
\* every message it sent has been deleted.
C40_WaitingDeletedOnce ==
    \A h \in Handlers :
        LET w == stream[h].waiting
        IN  /\ NoRepeat(w.deleted)
            /\ Range(w.deleted) \subseteq 1..w.sent
            /\ LoopRunning(h) =>
                  /\ (w.waiting_message # None
                        <=> stream[h].status = "motion_detected")
                  /\ (Range(w.deleted) \cup ({w.waiting_message} \ {None}))
                        = 1..w.sent
            /\ ~LoopRunning(h) => Range(w.deleted) = 1..w.sent
====
